---- MODULE Spec2Model ----
(***************************************************************************)
(* Model of the Gitea release planner (GiteaReleasePlanner), the Gitea     *)
(* client's request path (GiteaClient.request / handleError /              *)
(* getFileContents) and the action entry point (runAction).                *)
(*                                                                         *)
(* One invocation is modelled.  Every awaited request to the host and      *)
(* every awaited local command is one step of the model; the host's answer *)
(* to a request is chosen when the request is answered.  Optional values   *)
(* (T | undefined) are sequences of length 0 or 1.  Strings that the code  *)
(* parses (tag names, version strings) are                                 *)
(* sequences of one-character strings; strings that are only built are     *)
(* TLA+ strings.                                                           *)
(***************************************************************************)
EXTENDS Integers, Sequences, FiniteSets, TLC

VARIABLES
    mode,            \* "planner": buildReleasePlan called directly; "action": runAction;
                     \* "concurrent": buildReleasePlan called twice on one planner;
                     \* "helper": normalizeApiBaseUrl called directly
    pc,              \* position of the invocation
    options,         \* ReleasePlanOptions handed to buildReleasePlan
    inputs,          \* ActionInputs of the run (action mode)
    repository,      \* client.repository / client.repositoryMetadata
    hostFiles,       \* paths that exist on the target branch of the host
    requests,        \* requests issued to the host, in order, with the status answered
    tags,            \* result of client.listTags (optional)
    tagContext,      \* PlannedTagContext (optional)
    commitResponse,  \* result of client.listCommits (optional)
    walked,          \* the commits fetchConventionalCommits hands to the parser (optional)
    commits,         \* result of fetchConventionalCommits (optional)
    fetchedFiles,    \* results of client.getFileContents, in order: [path, file]
    plan,            \* the ReleasePlan returned (optional)
    outcome,         \* how buildReleasePlan ended: channel and error
    pullRequest,     \* pullRequestUrl and pullRequestNumber of runAction
    gitOps,          \* git commands run in the workspace, in order
    written,         \* paths written to the working tree, in order
    outputs,         \* outputs appended by appendOutput, in order: <<name, value>>
    exitCode,        \* process.exitCode
    logged,          \* levels and messages written to the planner's logger
    earlier,         \* an earlier invocation on the same planner: the host's
                     \* answers and the plan returned (optional)
    apiBaseUrl,      \* what normalizeApiBaseUrl returned or threw (optional)
    env,             \* process.env: the variables resolveActionInputs reads for
                     \* the server URL
    suspended,       \* the locals of a second invocation on the same planner
                     \* that waits at one of its awaits while this one runs
                     \* (optional)
    hostTags         \* the tags of the repository on the host, newest first

vars == <<mode, pc, options, inputs, repository, hostFiles, requests, tags, tagContext,
          commitResponse, walked, commits, fetchedFiles, plan, outcome, pullRequest,
          gitOps, written, outputs, exitCode, logged, earlier, apiBaseUrl, env, suspended,
          hostTags>>

-----------------------------------------------------------------------------
(* Bounds of the model *)

\* longest commit list the host returns to the planner called directly
MaxCommits == 2
\* longest commit list the host returns in an action run
MaxActionCommits == 1
\* most slashes after the server URL handed to normalizeApiBaseUrl
MaxSlashes == 2
\* most white space on either side of the server URL
MaxPadding == 1

-----------------------------------------------------------------------------
(* Optional values *)

None == <<>>
Some(x) == <<x>>
IsSome(o) == o # <<>>
Get(o) == o[1]
\* a ?? b
OrElse(o, d) == IF o # <<>> THEN o[1] ELSE d
\* a ?? b where b is optional too
OrElseOpt(o, d) == IF o # <<>> THEN o ELSE d

-----------------------------------------------------------------------------
(* Characters and numbers *)

Digits == {"0", "1", "2", "3", "4", "5", "6", "7", "8", "9"}

DigitVal(c) ==
    CASE c = "0" -> 0 [] c = "1" -> 1 [] c = "2" -> 2 [] c = "3" -> 3
      [] c = "4" -> 4 [] c = "5" -> 5 [] c = "6" -> 6 [] c = "7" -> 7
      [] c = "8" -> 8 [] c = "9" -> 9

DigitChar(n) ==
    CASE n = 0 -> "0" [] n = 1 -> "1" [] n = 2 -> "2" [] n = 3 -> "3"
      [] n = 4 -> "4" [] n = 5 -> "5" [] n = 6 -> "6" [] n = 7 -> "7"
      [] n = 8 -> "8" [] n = 9 -> "9"

IsNumber(s) == Len(s) > 0 /\ \A i \in 1..Len(s) : s[i] \in Digits

RECURSIVE ParseNat(_)
ParseNat(s) ==
    IF s = <<>> THEN 0
    ELSE 10 * ParseNat(SubSeq(s, 1, Len(s) - 1)) + DigitVal(s[Len(s)])

RECURSIVE NatToChars(_)
NatToChars(n) ==
    IF n < 10 THEN <<DigitChar(n)>>
    ELSE NatToChars(n \div 10) \o <<DigitChar(n % 10)>>

\* the string made of the characters of s
RECURSIVE Join(_)
Join(s) == IF s = <<>> THEN "" ELSE Head(s) \o Join(Tail(s))

\* positions of character c in s
Positions(s, c) == {i \in 1..Len(s) : s[i] = c}

Min(S) == CHOOSE x \in S : \A y \in S : x <= y

-----------------------------------------------------------------------------
(* Version: major.minor.patch with an optional prerelease label *)

MkVersion(ma, mi, pa, pre) == [major |-> ma, minor |-> mi, patch |-> pa, preRelease |-> pre]

\* length of the longest prefix of s made of digits
RECURSIVE DigitRun(_)
DigitRun(s) ==
    IF s # <<>> /\ Head(s) \in Digits THEN 1 + DigitRun(Tail(s)) ELSE 0

\* Version.parse: digits "." digits "." digits, then nothing or "-" label
VersionParse(s) ==
    LET dots == Positions(s, ".") IN
    IF Cardinality(dots) < 2 THEN None
    ELSE
      LET d1 == Min(dots)
          d2 == Min(dots \ {d1})
          ma == SubSeq(s, 1, d1 - 1)
          mi == SubSeq(s, d1 + 1, d2 - 1)
          rest == SubSeq(s, d2 + 1, Len(s))
          n == DigitRun(rest)
          pa == SubSeq(rest, 1, n)
          tail == SubSeq(rest, n + 1, Len(rest))
      IN  IF IsNumber(ma) /\ IsNumber(mi) /\ IsNumber(pa)
             /\ (tail = <<>> \/ (Len(tail) >= 2 /\ tail[1] = "-"))
          THEN Some(MkVersion(ParseNat(ma), ParseNat(mi), ParseNat(pa),
                              IF tail = <<>> THEN <<>> ELSE Tail(tail)))
          ELSE None

\* Version.toString, as characters
VersionChars(v) ==
    NatToChars(v.major) \o <<".">> \o NatToChars(v.minor) \o <<".">> \o NatToChars(v.patch)
      \o (IF v.preRelease = <<>> THEN <<>> ELSE <<"-">> \o v.preRelease)

VersionString(v) == Join(VersionChars(v))

\* the Version total order: major, then minor, then patch, then label
\* precedence (a prerelease precedes its release)
VersionLess(a, b) ==
    \/ a.major < b.major
    \/ a.major = b.major /\ a.minor < b.minor
    \/ a.major = b.major /\ a.minor = b.minor /\ a.patch < b.patch
    \/ a.major = b.major /\ a.minor = b.minor /\ a.patch = b.patch
         /\ a.preRelease # <<>> /\ b.preRelease = <<>>

-----------------------------------------------------------------------------
(* TagName: format and parse *)

MkTagName(version, component, separator, includeV) ==
    [version |-> version, component |-> component, separator |-> separator,
     includeV |-> includeV]

DEFAULT_SEPARATOR == <<"-">>

\* TagName.toString: component + separator (only with a component), "v"
\* (only with includeV), the version
TagChars(t) ==
    (IF t.component # <<>>
       THEN Get(t.component) \o OrElse(t.separator, DEFAULT_SEPARATOR)
       ELSE <<>>)
    \o (IF t.includeV THEN <<"v">> ELSE <<>>)
    \o VersionChars(t.version)

TagString(t) == Join(TagChars(t))

\* does the suffix of raw from position i read [v]version ?
VersionSuffixAt(raw, i) ==
    LET rest == SubSeq(raw, i, Len(raw)) IN
    \/ IsSome(VersionParse(rest))
    \/ rest # <<>> /\ Head(rest) = "v" /\ IsSome(VersionParse(Tail(rest)))

\* TagName.parse: [component [separator]] ["v"] version; none when the
\* name holds no version
TagParse(raw) ==
    LET starts == {i \in 1..Len(raw) : VersionSuffixAt(raw, i)} IN
    IF starts = {} THEN None
    ELSE
      LET i == Min(starts)
          rest == SubSeq(raw, i, Len(raw))
          hasV == Head(rest) = "v"
          version == Get(VersionParse(IF hasV THEN Tail(rest) ELSE rest))
          prefix == SubSeq(raw, 1, i - 1)
          hasSep == prefix # <<>> /\ prefix[Len(prefix)] \in {"-", "/"}
          comp == IF hasSep THEN SubSeq(prefix, 1, Len(prefix) - 1) ELSE prefix
      IN  Some(MkTagName(version,
                         IF comp = <<>> THEN None ELSE Some(comp),
                         IF hasSep THEN Some(<<prefix[Len(prefix)]>>) ELSE None,
                         hasV))

-----------------------------------------------------------------------------
(* Conventional Commit parser.  A message is a sequence of tokens:          *)
(*   type [ "(" scope ")" ] [ "!" ] ":" subject { footerKey ":" text }       *)

CommitTypes == {"feat", "fix", "chore", "docs"}

BreakingKeys == {"BREAKING CHANGE", "BREAKING-CHANGE", "breaking change"}

\* the footers of a token sequence key ":" text key ":" text ...
RECURSIVE ParseFooters(_)
ParseFooters(t) ==
    IF Len(t) >= 3 /\ t[2] = ":"
      THEN <<[key |-> t[1], text |-> t[3]]>> \o ParseFooters(SubSeq(t, 4, Len(t)))
      ELSE <<>>

\* the classified commit of a message, or none when the message is not a
\* Conventional Commit
ParseMessage(sha, m) ==
    IF Len(m) < 3 \/ m[1] \notin CommitTypes THEN None
    ELSE
      LET hasScope == Len(m) >= 4 /\ m[2] = "(" /\ m[4] = ")"
          afterScope == IF hasScope THEN 5 ELSE 2
          hasBang == Len(m) >= afterScope /\ m[afterScope] = "!"
          colon == IF hasBang THEN afterScope + 1 ELSE afterScope
      IN  IF Len(m) < colon + 1 \/ m[colon] # ":" THEN None
          ELSE
            LET notes == ParseFooters(SubSeq(m, colon + 2, Len(m))) IN
            Some([sha |-> sha,
                  type |-> m[1],
                  scope |-> IF hasScope THEN Some(m[3]) ELSE None,
                  breaking |-> hasBang \/ \E i \in 1..Len(notes) : notes[i].key \in BreakingKeys,
                  subject |-> m[colon + 1],
                  notes |-> notes])

\* parseConventionalCommits: the classified commits of a list, in order;
\* messages that do not parse are dropped
RECURSIVE parseConventionalCommits(_)
parseConventionalCommits(cs) ==
    IF cs = <<>> THEN <<>>
    ELSE OrElseOpt(ParseMessage(Head(cs).sha, Head(cs).message), <<>>)
           \o parseConventionalCommits(Tail(cs))

-----------------------------------------------------------------------------
(* Version bump *)

BumpMajor(v) == MkVersion(v.major + 1, 0, 0, <<>>)
BumpMinor(v) == MkVersion(v.major, v.minor + 1, 0, <<>>)
BumpPatch(v) == MkVersion(v.major, v.minor, v.patch + 1, <<>>)
Finalize(v) == MkVersion(v.major, v.minor, v.patch, <<>>)

IsBreaking(c) == c.breaking
IsFeature(c) == c.type = "feat"
IsFix(c) == c.type = "fix"

HasBreaking(cs) == \E i \in 1..Len(cs) : IsBreaking(cs[i])
HasFeature(cs) == \E i \in 1..Len(cs) : IsFeature(cs[i])
HasFix(cs) == \E i \in 1..Len(cs) : IsFix(cs[i])

\* DefaultVersioningStrategy.bump, by precedence over the whole commit set
bump(current, cs, bumpMinorPreMajor, bumpPatchForMinorPreMajor) ==
    LET preMajor == current.major = 0
        qualifies == HasBreaking(cs) \/ HasFeature(cs) \/ HasFix(cs)
    IN  IF ~qualifies THEN current
        ELSE IF current.preRelease # <<>> THEN Finalize(current)
        ELSE IF HasBreaking(cs)
          THEN IF preMajor /\ bumpMinorPreMajor THEN BumpMinor(current)
               ELSE BumpMajor(current)
        ELSE IF HasFeature(cs)
          THEN IF preMajor /\ bumpPatchForMinorPreMajor THEN BumpPatch(current)
               ELSE BumpMinor(current)
        ELSE BumpPatch(current)

-----------------------------------------------------------------------------
(* Changelog notes, changelog file, pull request title and body, branch    *)

\* the date of the run, as the changelog heading prints it
RunDate == "2024-01-01"

RECURSIVE Bullets(_, _)
Bullets(cs, host) ==
    IF cs = <<>> THEN <<>>
    ELSE <<"* " \o Head(cs).subject
             \o (IF IsSome(host) THEN " (" \o Get(host) \o "/commit/" \o Head(cs).sha \o ")" ELSE "")>>
           \o Bullets(Tail(cs), host)

Section(label, cs, host) ==
    IF cs = <<>> THEN <<>> ELSE <<"### " \o label>> \o Bullets(cs, host)

IsPlainFeature(c) == c.type = "feat" /\ ~c.breaking
IsPlainFix(c) == c.type = "fix" /\ ~c.breaking

\* DefaultChangelogNotes.buildNotes: heading, then the non-empty sections in
\* the fixed order breaking changes, features, fixes
buildNotes(cs, host, version, previousTag, currentTag) ==
    <<"## " \o
        (IF IsSome(previousTag) /\ IsSome(host)
           THEN "[" \o version \o "](" \o Get(host) \o "/compare/" \o Get(previousTag)
                  \o "..." \o currentTag \o ")"
           ELSE version)
        \o " (" \o RunDate \o ")">>
    \o Section("BREAKING CHANGES", SelectSeq(cs, IsBreaking), host)
    \o Section("Features", SelectSeq(cs, IsPlainFeature), host)
    \o Section("Bug Fixes", SelectSeq(cs, IsPlainFix), host)

CHANGELOG_HEADER == "# Changelog"

\* Changelog.updateContent: the entry goes right after the top-level heading,
\* or at the top when there is none; a missing file starts from the heading
updateContent(existingContent, changelogEntry) ==
    IF ~IsSome(existingContent) THEN <<CHANGELOG_HEADER>> \o changelogEntry
    ELSE LET content == Get(existingContent) IN
         IF content # <<>> /\ Head(content) = CHANGELOG_HEADER
           THEN <<Head(content)>> \o changelogEntry \o Tail(content)
           ELSE changelogEntry \o content

\* Buffer.from(text, 'utf8').toString('base64')
Base64Encode(lines) == [encoding |-> "base64", data |-> lines]

\* PullRequestTitle.ofTargetBranchVersion(...).toString()
RECURSIVE RenderPattern(_, _, _)
RenderPattern(pattern, branch, version) ==
    IF pattern = <<>> THEN ""
    ELSE (CASE Head(pattern) = "${scope}" -> "(" \o branch \o ")"
            [] Head(pattern) = "${version}" -> version
            [] OTHER -> Head(pattern))
         \o RenderPattern(Tail(pattern), branch, version)

DEFAULT_TITLE_PATTERN == <<"chore", "${scope}", ": release ", "${version}">>

PullRequestTitle(targetBranch, version, pattern) ==
    RenderPattern(OrElse(pattern, DEFAULT_TITLE_PATTERN), targetBranch, VersionString(version))

DEFAULT_PR_HEADER == ":robot: I have created a release *beep* *boop*"
DEFAULT_PR_FOOTER == "This PR was generated with Release Please."

\* PullRequestBody(...).toString(): header, changelog entry, footer
PullRequestBody(notes, header, footer) ==
    <<OrElse(header, DEFAULT_PR_HEADER), "---">> \o notes
      \o <<"---", OrElse(footer, DEFAULT_PR_FOOTER)>>

\* BranchName.ofTargetBranch / ofComponentTargetBranch
BranchNameOfTargetBranch(targetBranch) == "release-please--branches--" \o targetBranch
BranchNameOfComponentTargetBranch(component, targetBranch) ==
    "release-please--branches--" \o targetBranch \o "--components--" \o Join(component)

-----------------------------------------------------------------------------
(* What the host can answer *)

Shas == {"abc123", "def456", "fed789"}

MsgFeat == <<"feat", ":", "add new capability">>
MsgFix == <<"fix", ":", "squash bug">>
MsgBreaking == <<"feat", "!", ":", "drop old api">>
MsgRelease == <<"chore", "(", "main", ")", ":", "release 1.2.0">>
MsgPlain == <<"update readme">>
Messages == {MsgFeat, MsgFix, MsgBreaking, MsgRelease, MsgPlain}

RawCommits == [sha : Shas, message : Messages]

\* the commit lists of at most n commits, no sha twice (newest first)
RECURSIVE CommitLists(_)
CommitLists(n) ==
    IF n = 0 THEN {<<>>}
    ELSE LET shorter == CommitLists(n - 1) IN
         shorter \cup
         UNION {{<<c>> \o l : l \in {k \in shorter : Len(k) = n - 1
                                        /\ \A i \in 1..Len(k) : k[i].sha # c.sha}}
                : c \in RawCommits}

TagV120 == <<"v", "1", ".", "2", ".", "0">>
TagCompV120 == <<"c", "o", "m", "p", "-", "v", "1", ".", "2", ".", "0">>
TagOtherV010 == <<"l", "i", "b", "/", "0", ".", "1", ".", "0">>
TagLatest == <<"l", "a", "t", "e", "s", "t">>
TagRc == <<"v", "2", ".", "0", ".", "0", "-", "r", "c">>
TagNames == {TagV120, TagCompV120, TagOtherV010, TagLatest, TagRc}

\* the tags of a host, newest first: no tag, or one tag with its commit sha
\* (if any)
TagLists == {<<>>} \cup {<<[name |-> n, commit |-> [sha |-> c]]>> :
                            n \in TagNames, c \in {None} \cup {Some(x) : x \in Shas}}

OldChangelog == <<CHANGELOG_HEADER, "## 1.2.0", "* Previous release">>
FileContents == {Base64Encode(OldChangelog), Base64Encode(<<"notes">>)}

\* the files a target branch may hold
ManifestPaths == {"package.json", "package-lock.json"}
HostFileSets == {{}, {"CHANGELOG.md"}, {"CHANGELOG.md"} \cup ManifestPaths}

\* the sha the host reports for a file
FileSha(path) ==
    CASE path = "CHANGELOG.md" -> "changelogsha"
      [] path = "package.json" -> "pkgjsonsha"
      [] path = "package-lock.json" -> "pkglocksha"
      [] OTHER -> "filesha"

\* the contents responses of the host for a file that exists
FileBodies(path) == [sha : {FileSha(path)}, content : FileContents, encoding : {Some("base64")}]

OK == 200
CREATED == 201
UNAUTHORIZED == 401
NOT_FOUND == 404
CONFLICT == 409
SERVER_ERROR == 500
\* the statuses the host answers a read of something that exists with
ReadStatuses == {OK, UNAUTHORIZED, SERVER_ERROR}
\* the statuses the host answers a listing with
ListStatuses == ReadStatuses \cup {NOT_FOUND}
\* the statuses the host answers the creation of a pull request with
CreateStatuses == {CREATED, CONFLICT, UNAUTHORIZED, SERVER_ERROR}

\* Response.ok
ResponseOk(status) == status >= 200 /\ status <= 299

-----------------------------------------------------------------------------
(* Options *)

CompName == <<"c", "o", "m", "p">>
InitialVersionChars == <<"1", ".", "0", ".", "0">>

\* ReleasePlanOptions = {}
DefaultOptions ==
    [targetBranch |-> None, component |-> None, includeComponentInTag |-> None,
     includeVInTag |-> None, tagSeparator |-> None, bumpMinorPreMajor |-> None,
     bumpPatchForMinorPreMajor |-> None, changelogPath |-> None,
     changelogHost |-> None, pullRequestTitlePattern |-> None,
     pullRequestHeader |-> None, pullRequestFooter |-> None,
     initialVersion |-> None]

OptionChoices ==
    {DefaultOptions,
     [DefaultOptions EXCEPT !.targetBranch = Some("develop")],
     [DefaultOptions EXCEPT !.component = Some(CompName)],
     [DefaultOptions EXCEPT !.initialVersion = Some(InitialVersionChars)]}

\* the options of the versioning strategy, every combination
BumpOptionChoices ==
    {[DefaultOptions EXCEPT !.bumpMinorPreMajor = m, !.bumpPatchForMinorPreMajor = p] :
        m \in {None, Some(TRUE)}, p \in {None, Some(TRUE)}}

\* the options that shape the tag, every combination
TagOptionChoices ==
    {[DefaultOptions EXCEPT !.component = c, !.tagSeparator = sep, !.includeVInTag = v,
                            !.includeComponentInTag = inTag] :
        c \in {None, Some(CompName)},
        sep \in {None, Some(<<"-">>), Some(<<"/">>)},
        v \in {None, Some(FALSE)},
        inTag \in {None, Some(FALSE)}}

-----------------------------------------------------------------------------
(* GiteaReleasePlanner: the synchronous parts *)

\* extractPreviousTag logging an unparseable tag at debug level
LoggedForTagAtDebug(parsed, opts) ==
    IF ~IsSome(parsed) THEN <<"debug">>
    ELSE IF IsSome(opts.component) /\ IsSome(Get(parsed).component)
            /\ Get(parsed).component # opts.component
      THEN <<"debug">>
      ELSE <<>>

\* extractPreviousTag past the check for no tags: what is logged for the
\* newest tag, given what TagName.parse made of its name
LoggedForTag(parsed, opts) ==
    IF ~IsSome(parsed) THEN <<"warn">>
    ELSE IF IsSome(opts.component) /\ IsSome(Get(parsed).component)
            /\ Get(parsed).component # opts.component
      THEN <<"debug">>
      ELSE <<>>

\* extractPreviousTag: the levels it logs at
extractPreviousTagLog(tagList, opts) ==
    IF tagList = <<>> THEN <<"info">>
    ELSE LoggedForTag(TagParse(tagList[1].name), opts)

\* extractPreviousTag past the check for no tags: the previous tag, given
\* what TagName.parse made of the newest tag's name
PreviousTagOf(tag, parsed, opts) ==
    IF ~IsSome(parsed) THEN None
    ELSE IF IsSome(opts.component) /\ IsSome(Get(parsed).component)
            /\ Get(parsed).component # opts.component
      THEN None
      ELSE Some([tag |-> Get(parsed),
                 commitSha |-> tag.commit.sha,
                 rawName |-> tag.name])

\* extractPreviousTag falling back on the oldest tag of the answer when the
\* newest one is not accepted
extractPreviousTagSearching(tagList, opts) ==
    IF tagList = <<>> THEN None
    ELSE IF IsSome(PreviousTagOf(tagList[1], TagParse(tagList[1].name), opts))
      THEN PreviousTagOf(tagList[1], TagParse(tagList[1].name), opts)
      ELSE PreviousTagOf(tagList[Len(tagList)], TagParse(tagList[Len(tagList)].name), opts)

\* extractPreviousTag
extractPreviousTag(tagList, opts) ==
    IF tagList = <<>> THEN None
    ELSE PreviousTagOf(tagList[1], TagParse(tagList[1].name), opts)

\* resolveTagContext taking the format of the next tag from the options alone
TagContextOfOptionsAlone(previousTag, opts) ==
    [previousTag |-> previousTag,
     component |-> IF opts.includeComponentInTag = Some(FALSE) THEN None ELSE opts.component,
     includeV |-> OrElse(opts.includeVInTag, TRUE),
     separator |-> opts.tagSeparator]

\* resolveTagContext: the context returned for a previous tag
TagContextOf(previousTag, opts) ==
    [previousTag |-> previousTag,
     component |->
        IF opts.includeComponentInTag = Some(FALSE) THEN None
        ELSE OrElseOpt(opts.component,
                       IF IsSome(previousTag) THEN Get(previousTag).tag.component ELSE None),
     includeV |->
        OrElse(opts.includeVInTag,
               IF IsSome(previousTag) THEN Get(previousTag).tag.includeV ELSE TRUE),
     separator |->
        OrElseOpt(opts.tagSeparator,
                  IF IsSome(previousTag) THEN Get(previousTag).tag.separator ELSE None)]

\* resolveTagContext, after the tags are listed
resolveTagContext(tagList, opts) ==
    TagContextOf(extractPreviousTag(tagList, opts), opts)

\* the sha the walk stops at (tagContext.previousTag?.commitSha), if any
BoundarySha(ctx) ==
    IF IsSome(ctx.previousTag) THEN Get(ctx.previousTag).commitSha ELSE None

\* the loop with the push placed before the comparison: the boundary commit
\* is collected too
RECURSIVE CommitsThroughBoundary(_, _)
CommitsThroughBoundary(commitResponse_, ctx) ==
    IF commitResponse_ = <<>> THEN <<>>
    ELSE <<[sha |-> Head(commitResponse_).sha, message |-> Head(commitResponse_).message]>>
         \o (IF IsSome(BoundarySha(ctx)) /\ Head(commitResponse_).sha = Get(BoundarySha(ctx))
               THEN <<>>
               ELSE CommitsThroughBoundary(Tail(commitResponse_), ctx))

\* the loop with continue in place of break: the boundary commit is skipped
\* and the walk goes on
RECURSIVE CommitsSkippingBoundary(_, _)
CommitsSkippingBoundary(commitResponse_, ctx) ==
    IF commitResponse_ = <<>> THEN <<>>
    ELSE (IF IsSome(BoundarySha(ctx)) /\ Head(commitResponse_).sha = Get(BoundarySha(ctx))
            THEN <<>>
            ELSE <<[sha |-> Head(commitResponse_).sha,
                    message |-> Head(commitResponse_).message]>>)
         \o CommitsSkippingBoundary(Tail(commitResponse_), ctx)

\* the loop looking only at commits with a Conventional Commit message: a
\* commit that does not parse is passed over before its sha is compared
RECURSIVE CommitsBeforeConventionalBoundary(_, _)
CommitsBeforeConventionalBoundary(commitResponse_, ctx) ==
    IF commitResponse_ = <<>> THEN <<>>
    ELSE IF ParseMessage(Head(commitResponse_).sha, Head(commitResponse_).message) = None
      THEN CommitsBeforeConventionalBoundary(Tail(commitResponse_), ctx)
    ELSE IF IsSome(BoundarySha(ctx)) /\ Head(commitResponse_).sha = Get(BoundarySha(ctx))
      THEN <<>>
      ELSE <<[sha |-> Head(commitResponse_).sha, message |-> Head(commitResponse_).message]>>
           \o CommitsBeforeConventionalBoundary(Tail(commitResponse_), ctx)

\* the loop of fetchConventionalCommits: the commits before the first one
\* whose sha is the previous tag's commit sha
RECURSIVE CommitsBeforeBoundary(_, _)
CommitsBeforeBoundary(commitResponse_, ctx) ==
    IF commitResponse_ = <<>> THEN <<>>
    ELSE IF IsSome(BoundarySha(ctx)) /\ Head(commitResponse_).sha = Get(BoundarySha(ctx))
      THEN <<>>
      ELSE <<[sha |-> Head(commitResponse_).sha, message |-> Head(commitResponse_).message]>>
             \o CommitsBeforeBoundary(Tail(commitResponse_), ctx)

\* fetchConventionalCommits, after the commits are listed
fetchConventionalCommits(commitResponse_, ctx) ==
    parseConventionalCommits(CommitsBeforeBoundary(commitResponse_, ctx))

\* buildNextTag leaving context.separator out
buildNextTagWithoutSeparator(nextVersion, ctx) ==
    MkTagName(nextVersion, ctx.component, None, ctx.includeV)

\* buildNextTag
buildNextTag(nextVersion, ctx) ==
    MkTagName(nextVersion, ctx.component, ctx.separator, ctx.includeV)

\* resolveChangelogHost
resolveChangelogHost(opts, repo) ==
    IF IsSome(opts.changelogHost) THEN opts.changelogHost
    ELSE IF ~IsSome(repo.htmlUrl) THEN None
    ELSE Some(Get(repo.htmlUrl).origin)

PreviousTagString(ctx) ==
    IF IsSome(ctx.previousTag) THEN Some(TagString(Get(ctx.previousTag).tag)) ELSE None

\* the address of the repository on a host, for the links of the notes
RepositoryUrl(host, repo) ==
    IF IsSome(host) THEN Some(Get(host) \o "/" \o repo.owner \o "/" \o repo.repo) ELSE None

\* buildChangelogEntry
buildChangelogEntry(cs, ctx, nextTag, opts, repo) ==
    buildNotes(cs, RepositoryUrl(resolveChangelogHost(opts, repo), repo),
               VersionString(nextTag.version), PreviousTagString(ctx), TagString(nextTag))

DEFAULT_CHANGELOG_PATH == "CHANGELOG.md"

\* Buffer.from(content, encoding).toString('utf8')
DecodeContent(content, encoding) ==
    IF content.encoding = encoding THEN content.data ELSE <<"?">>

KnownEncodings == {"base64", "utf8", "hex"}

\* the sha of a staged update, dropped
StagedShaDropped(existingChangelog) == None

\* buildFileUpdates: existingChangelog?.sha
StagedSha(existingChangelog) ==
    IF IsSome(existingChangelog) THEN Some(Get(existingChangelog).sha) ELSE None

\* buildFileUpdates, after the changelog file is fetched
buildFileUpdates(changelogEntry, opts, pullRequestTitle, existingChangelog) ==
    LET changelogPath == OrElse(opts.changelogPath, DEFAULT_CHANGELOG_PATH)
        encoding ==
            IF IsSome(existingChangelog) /\ IsSome(Get(existingChangelog).encoding)
               /\ Get(Get(existingChangelog).encoding) \in KnownEncodings
            THEN Get(Get(existingChangelog).encoding) ELSE "base64"
        existingContent ==
            IF IsSome(existingChangelog)
            THEN Some(DecodeContent(Get(existingChangelog).content, encoding))
            ELSE None
        updatedContent == updateContent(existingContent, changelogEntry)
    IN  <<[path |-> changelogPath,
           content |-> Base64Encode(updatedContent),
           sha |-> StagedSha(existingChangelog),
           message |-> pullRequestTitle]>>

ZERO_VERSION == <<"0", ".", "0", ".", "0">>

\* the base version with options.initialVersion ignored
CurrentVersionIgnoringInitial(opts, ctx) ==
    IF IsSome(ctx.previousTag) THEN Get(ctx.previousTag).tag.version
    ELSE Get(VersionParse(ZERO_VERSION))

\* the base version kept from the plan an earlier invocation returned
CurrentVersionFromEarlierPlan(opts, ctx) ==
    IF IsSome(earlier) THEN Get(earlier).plan.version
    ELSE IF IsSome(ctx.previousTag) THEN Get(ctx.previousTag).tag.version
    ELSE Get(VersionParse(OrElse(opts.initialVersion, ZERO_VERSION)))

\* buildReleasePlan: the base version of the bump
CurrentVersion(opts, ctx) ==
    IF IsSome(ctx.previousTag) THEN Get(ctx.previousTag).tag.version
    ELSE Get(VersionParse(OrElse(opts.initialVersion, ZERO_VERSION)))

\* the check with the comparison turned, so that it never throws
NoConventionalCommitsNever(cs) == Len(cs) < 0

\* buildReleasePlan: the check that throws 'No conventional commits found'
NoConventionalCommits(cs) == Len(cs) = 0

\* the record returned, its branch named after the component of the tag
\* context in place of options.component
PlanRecordOfContextComponent(opts, ctx, cs, existingChangelog, targetBranch, nextVersion, pullRequestTitle, nextTag, changelogEntry) ==
    [version |-> nextVersion,
     previousTag |-> PreviousTagString(ctx),
     currentTag |-> TagString(nextTag),
     changelogEntry |-> changelogEntry,
     pullRequestTitle |-> pullRequestTitle,
     pullRequestBody |-> PullRequestBody(changelogEntry, opts.pullRequestHeader,
                                         opts.pullRequestFooter),
     headBranchName |->
        IF IsSome(ctx.component)
        THEN BranchNameOfComponentTargetBranch(Get(ctx.component), targetBranch)
        ELSE BranchNameOfTargetBranch(targetBranch),
     updates |-> buildFileUpdates(changelogEntry, opts, pullRequestTitle, existingChangelog),
     commits |-> cs]

\* buildReleasePlan: the record returned
PlanRecord(opts, ctx, cs, existingChangelog, targetBranch, nextVersion, pullRequestTitle, nextTag, changelogEntry) ==
    [version |-> nextVersion,
     previousTag |-> PreviousTagString(ctx),
     currentTag |-> TagString(nextTag),
     changelogEntry |-> changelogEntry,
     pullRequestTitle |-> pullRequestTitle,
     pullRequestBody |-> PullRequestBody(changelogEntry, opts.pullRequestHeader,
                                         opts.pullRequestFooter),
     headBranchName |->
        IF IsSome(opts.component)
        THEN BranchNameOfComponentTargetBranch(Get(opts.component), targetBranch)
        ELSE BranchNameOfTargetBranch(targetBranch),
     updates |-> buildFileUpdates(changelogEntry, opts, pullRequestTitle, existingChangelog),
     commits |-> cs]

\* buildReleasePlan from the next version on: title, next tag, changelog entry
PlanOfVersion(opts, repo, ctx, cs, existingChangelog, targetBranch, nextVersion) ==
    PlanRecord(opts, ctx, cs, existingChangelog, targetBranch, nextVersion,
               PullRequestTitle(targetBranch, nextVersion, opts.pullRequestTitlePattern),
               buildNextTag(nextVersion, ctx),
               buildChangelogEntry(cs, ctx, buildNextTag(nextVersion, ctx), opts, repo))

\* buildReleasePlan with the client's default branch as the target branch
BuildPlanOnDefaultBranch(opts, repo, ctx, cs, existingChangelog) ==
    PlanOfVersion(opts, repo, ctx, cs, existingChangelog,
                  repo.defaultBranch,
                  bump(CurrentVersion(opts, ctx), cs,
                       OrElse(opts.bumpMinorPreMajor, FALSE),
                       OrElse(opts.bumpPatchForMinorPreMajor, FALSE)))

\* buildReleasePlan handing only the newest commit to the versioning strategy
BuildPlanFromNewestCommit(opts, repo, ctx, cs, existingChangelog) ==
    PlanOfVersion(opts, repo, ctx, cs, existingChangelog,
                  OrElse(opts.targetBranch, repo.defaultBranch),
                  bump(CurrentVersion(opts, ctx), <<cs[1]>>,
                       OrElse(opts.bumpMinorPreMajor, FALSE),
                       OrElse(opts.bumpPatchForMinorPreMajor, FALSE)))

\* buildReleasePlan with the base version taken as the next version
BuildPlanUnbumped(opts, repo, ctx, cs, existingChangelog) ==
    PlanOfVersion(opts, repo, ctx, cs, existingChangelog,
                  OrElse(opts.targetBranch, repo.defaultBranch),
                  CurrentVersion(opts, ctx))

\* buildReleasePlan past that check, given what was fetched
BuildPlan(opts, repo, ctx, cs, existingChangelog) ==
    PlanOfVersion(opts, repo, ctx, cs, existingChangelog,
                  OrElse(opts.targetBranch, repo.defaultBranch),
                  bump(CurrentVersion(opts, ctx), cs,
                       OrElse(opts.bumpMinorPreMajor, FALSE),
                       OrElse(opts.bumpPatchForMinorPreMajor, FALSE)))

-----------------------------------------------------------------------------
(* GiteaClient: requests and errors *)

\* handleError: the error thrown for a response that is not ok
GiteaAPIError(status, method, endpoint) ==
    [class |-> "GiteaAPIError", status |-> Some(status), method |-> method,
     endpoint |-> endpoint]

\* the error buildReleasePlan throws when no conventional commit is found
NoCommitsError ==
    [class |-> "Error", status |-> None, method |-> "", endpoint |-> ""]

\* request: one call of fetchImpl and the status it was answered with
Request(method, endpoint, status) ==
    [method |-> method, endpoint |-> endpoint, status |-> status]

\* a contents request that writes the file (updateFile) instead of reading it
ContentsRequestWriting(status, body) ==
    [method |-> "PUT", endpoint |-> "contents", status |-> status,
     body |-> IF ResponseOk(status) THEN Some(body) ELSE None]

\* request for a file: the call and the body of an ok answer
ContentsRequest(status, body) ==
    [method |-> "GET", endpoint |-> "contents", status |-> status,
     body |-> IF ResponseOk(status) THEN Some(body) ELSE None]

\* request for the repository: the call and the body of an ok answer
RepositoryRequest(status, body) ==
    [method |-> "GET", endpoint |-> "repo", status |-> status,
     body |-> IF ResponseOk(status) THEN Some(body) ELSE None]

\* request: the error thrown for a response with this status, if any
RequestError(status, method, endpoint) ==
    IF ~ResponseOk(status) THEN Some(GiteaAPIError(status, method, endpoint)) ELSE None

\* getFileContents with a catch that swallows every error
GetFileContentsErrorSwallowed(status) == None

\* getFileContents with a catch that rethrows every error, 404 too
GetFileContentsErrorRethrown(status) == RequestError(status, "GET", "contents")

\* getFileContents: the error rethrown for a contents request, if any
GetFileContentsError(status) ==
    LET err == RequestError(status, "GET", "contents") IN
    IF IsSome(err) /\ Get(err).status = Some(NOT_FOUND) THEN None ELSE err

\* getFileContents: the value returned when nothing is thrown
GetFileContentsResult(status, body, filePath) ==
    IF ResponseOk(status)
    THEN Some([sha |-> body.sha, path |-> filePath, content |-> body.content,
               encoding |-> Some(OrElse(body.encoding, "base64"))])
    ELSE None

\* parseRepositoryResponse without the default of the branch name
parseRepositoryResponseAsSent(response, owner, repo) ==
    [owner |-> owner, repo |-> repo,
     defaultBranch |-> OrElse(response.default_branch, ""),
     htmlUrl |-> response.html_url]

\* parseRepositoryResponse
parseRepositoryResponse(response, owner, repo) ==
    [owner |-> owner, repo |-> repo,
     defaultBranch |-> OrElse(response.default_branch, "main"),
     htmlUrl |-> response.html_url]

Pending == [channel |-> "pending", error |-> None]
Fulfilled == [channel |-> "fulfilled", error |-> None]
Rejected(err) == [channel |-> "rejected", error |-> Some(err)]

-----------------------------------------------------------------------------
(* buildReleasePlan, one step per awaited request *)

\* buildReleasePlan rejects with err; in an action run the rejection leaves
\* runAction and reaches the catch of the entry point
PlanRejects(err) ==
    /\ outcome' = Rejected(err)
    /\ pc' = IF mode = "action" THEN "exit" ELSE "rejected"
    /\ exitCode' = IF mode = "action" THEN 1 ELSE exitCode

\* the host, unchanged since the earlier invocation, answers the k-th
\* request of this invocation as it answered the k-th request of that one
SameStatusAsEarlier(status) ==
    IsSome(earlier) => status = requests[Len(requests) - 2].status
SameAnswerAsEarlier(status, value, field) ==
    IsSome(earlier) => (SameStatusAsEarlier(status) /\ value = Get(earlier)[field])

\* the tags of the host with two invocations under way: no tag, a tag
\* without component, a tag of the component
ConcurrentTagLists ==
    {<<>>} \cup {<<[name |-> n, commit |-> [sha |-> Some("abc123")]]>> :
                    n \in {TagV120, TagCompV120}}

\* what the host answers listTags({limit}) with: the newest tags up to the
\* limit, or every tag when it does not honour the limit
ListTagsAnswers(limit) ==
    {SubSeq(hostTags, 1, IF Len(hostTags) < limit THEN Len(hostTags) ELSE limit),
     hostTags}

\* resolveTagContext: await client.listTags({limit: 1})
ResolveTagContext ==
    /\ pc = "resolveTagContext"
    /\ \E status \in ListStatuses, tagList \in ListTagsAnswers(1) :
         LET err == RequestError(status, "GET", "tags") IN
         /\ SameAnswerAsEarlier(status, tagList, "tags")
         /\ requests' = Append(requests, Request("GET", "tags", status))
         /\ IF IsSome(err)
            THEN /\ PlanRejects(Get(err))
                 /\ UNCHANGED <<tags, tagContext, logged>>
            ELSE /\ tags' = Some(tagList)
                 /\ tagContext' = Some(resolveTagContext(tagList, options))
                 /\ logged' = logged \o extractPreviousTagLog(tagList, options)
                 /\ pc' = "fetchConventionalCommits"
                 /\ UNCHANGED <<outcome, exitCode>>
    /\ UNCHANGED <<hostTags, suspended, env, apiBaseUrl, earlier, mode, options, inputs, repository, hostFiles, commitResponse, walked,
                   commits, fetchedFiles, plan, pullRequest, gitOps, written, outputs>>

\* the commit lists the host can answer with
PlannerCommitLists == CommitLists(MaxCommits)
ActionCommitLists == CommitLists(MaxActionCommits)
\* with two invocations under way: a feature on top of the tagged commit, a
\* fix and a commit that is not conventional, a breaking change alone
ConcurrentCommitLists ==
    {<<[sha |-> "def456", message |-> MsgFeat], [sha |-> "abc123", message |-> MsgRelease]>>,
     <<[sha |-> "fed789", message |-> MsgFix], [sha |-> "def456", message |-> MsgPlain]>>,
     <<[sha |-> "def456", message |-> MsgBreaking]>>}
HostCommitLists ==
    CASE mode = "action" -> ActionCommitLists
      [] mode = "concurrent" -> ConcurrentCommitLists
      [] OTHER -> PlannerCommitLists

\* fetchConventionalCommits: await client.listCommits({sha, limit: 100}),
\* then the check for zero conventional commits
FetchConventionalCommits ==
    /\ pc = "fetchConventionalCommits"
    /\ \E status \in ListStatuses, list \in HostCommitLists :
         LET err == RequestError(status, "GET", "commits")
             found == fetchConventionalCommits(list, Get(tagContext))
         IN
         /\ SameAnswerAsEarlier(status, list, "commitResponse")
         /\ requests' = Append(requests, Request("GET", "commits", status))
         /\ IF IsSome(err)
            THEN /\ PlanRejects(Get(err))
                 /\ UNCHANGED <<commitResponse, walked, commits>>
            ELSE /\ commitResponse' = Some(list)
                 /\ walked' = Some(CommitsBeforeBoundary(list, Get(tagContext)))
                 /\ commits' = Some(found)
                 /\ IF NoConventionalCommits(found)
                    THEN PlanRejects(NoCommitsError)
                    ELSE /\ pc' = "buildFileUpdates"
                         /\ UNCHANGED <<outcome, exitCode>>
    /\ UNCHANGED <<hostTags, suspended, env, apiBaseUrl, earlier, mode, options, inputs, repository, hostFiles, tags, tagContext,
                   fetchedFiles, plan, pullRequest, gitOps, written, outputs, logged>>

\* the statuses the host can answer a contents request for path with
ContentsStatuses(path) ==
    {UNAUTHORIZED, SERVER_ERROR} \cup (IF path \in hostFiles THEN {OK} ELSE {NOT_FOUND})

\* buildFileUpdates: await client.getFileContents({filePath, ref}), then
\* the rest of buildReleasePlan
BuildFileUpdates ==
    /\ pc = "buildFileUpdates"
    /\ LET path == OrElse(options.changelogPath, DEFAULT_CHANGELOG_PATH) IN
       \E status \in ContentsStatuses(path), body \in FileBodies(path) :
         LET err == GetFileContentsError(status)
             file == GetFileContentsResult(status, body, path)
         IN
         /\ SameAnswerAsEarlier(status, ContentsRequest(status, body).body, "fileBody")
         /\ requests' = Append(requests, ContentsRequest(status, body))
         /\ IF IsSome(err)
            THEN /\ PlanRejects(Get(err))
                 /\ UNCHANGED <<fetchedFiles, plan>>
            ELSE /\ fetchedFiles' = Append(fetchedFiles, [path |-> path, file |-> file])
                 /\ plan' = Some(BuildPlan(options, repository, Get(tagContext),
                                           Get(commits), file))
                 /\ outcome' = Fulfilled
                 /\ pc' = IF mode = "action" THEN "ensureGitIdentity" ELSE "planned"
                 /\ UNCHANGED exitCode
    /\ UNCHANGED <<hostTags, suspended, env, apiBaseUrl, earlier, mode, options, inputs, repository, hostFiles, tags, tagContext,
                   commitResponse, walked, commits, pullRequest, gitOps, written,
                   outputs, logged>>

NextPlan == ResolveTagContext \/ FetchConventionalCommits \/ BuildFileUpdates

\* buildReleasePlan is called a second time on the same planner, with the
\* same options, after it returned a plan
InvokeAgain ==
    /\ mode = "planner"
    /\ pc = "planned"
    /\ earlier = None
    /\ earlier' = Some([tags |-> Get(tags),
                        commitResponse |-> Get(commitResponse),
                        fileBody |-> requests[Len(requests)].body,
                        plan |-> Get(plan)])
    /\ pc' = "resolveTagContext"
    /\ tags' = None
    /\ tagContext' = None
    /\ commitResponse' = None
    /\ walked' = None
    /\ commits' = None
    /\ fetchedFiles' = <<>>
    /\ plan' = None
    /\ outcome' = Pending
    /\ UNCHANGED <<hostTags, suspended, env, apiBaseUrl, mode, options, inputs, repository, hostFiles, requests,
                   pullRequest, gitOps, written, outputs, exitCode, logged>>

NextTwice == NextPlan \/ InvokeAgain

\* the locals of the invocation that runs, and the files of its target branch
Locals ==
    [pc |-> pc, options |-> options, hostFiles |-> hostFiles, requests |-> requests,
     tags |-> tags, tagContext |-> tagContext, commitResponse |-> commitResponse,
     walked |-> walked, commits |-> commits, fetchedFiles |-> fetchedFiles,
     plan |-> plan, outcome |-> outcome]

\* the invocation that runs reaches an await or its end and the invocation
\* that waits is resumed, with a planner that keeps the tag context in a
\* field of its own
ResumeOtherSharingTagContext ==
    /\ IsSome(suspended)
    /\ Get(suspended).pc \in {"resolveTagContext", "fetchConventionalCommits",
                              "buildFileUpdates"}
    /\ suspended' = Some(Locals)
    /\ pc' = Get(suspended).pc
    /\ options' = Get(suspended).options
    /\ hostFiles' = Get(suspended).hostFiles
    /\ requests' = Get(suspended).requests
    /\ tags' = Get(suspended).tags
    /\ commitResponse' = Get(suspended).commitResponse
    /\ walked' = Get(suspended).walked
    /\ commits' = Get(suspended).commits
    /\ fetchedFiles' = Get(suspended).fetchedFiles
    /\ plan' = Get(suspended).plan
    /\ outcome' = Get(suspended).outcome
    /\ UNCHANGED <<tagContext, hostTags, env, apiBaseUrl, earlier, mode, inputs, repository,
                   pullRequest, gitOps, written, outputs, exitCode, logged>>

\* the invocation that runs reaches an await or its end and the invocation
\* that waits is resumed: each has its own locals; the client, its
\* repository and the logger are the ones both use
ResumeOther ==
    /\ IsSome(suspended)
    /\ Get(suspended).pc \in {"resolveTagContext", "fetchConventionalCommits",
                              "buildFileUpdates"}
    /\ suspended' = Some(Locals)
    /\ pc' = Get(suspended).pc
    /\ options' = Get(suspended).options
    /\ hostFiles' = Get(suspended).hostFiles
    /\ requests' = Get(suspended).requests
    /\ tags' = Get(suspended).tags
    /\ tagContext' = Get(suspended).tagContext
    /\ commitResponse' = Get(suspended).commitResponse
    /\ walked' = Get(suspended).walked
    /\ commits' = Get(suspended).commits
    /\ fetchedFiles' = Get(suspended).fetchedFiles
    /\ plan' = Get(suspended).plan
    /\ outcome' = Get(suspended).outcome
    /\ UNCHANGED <<hostTags, env, apiBaseUrl, earlier, mode, inputs, repository, pullRequest,
                   gitOps, written, outputs, exitCode, logged>>

NextConcurrent == NextPlan \/ ResumeOther

-----------------------------------------------------------------------------
(* Initial states *)

Owner == "octo"
RepoName == "demo"
HtmlUrl == [origin |-> "https://gitea.example", path |-> "/octo/demo"]

\* 'https://gitea.com'
DEFAULT_SERVER_URL ==
    <<"h", "t", "t", "p", "s", ":", "/", "/", "g", "i", "t", "e", "a", ".", "c", "o", "m">>

\* ActionInputs with no optional input given
NoInputs ==
    [defaultBranch |-> None, targetBranch |-> None, component |-> None,
     serverUrl |-> DEFAULT_SERVER_URL]

\* process.env with neither server URL variable set
NoEnv == [INPUT_SERVER_URL |-> None, GITEA_SERVER_URL |-> None]

NoPullRequest == [url |-> None, number |-> None]

\* what no invocation has touched yet
Untouched ==
    /\ requests = <<>>
    /\ tags = None
    /\ tagContext = None
    /\ commitResponse = None
    /\ walked = None
    /\ commits = None
    /\ fetchedFiles = <<>>
    /\ plan = None
    /\ outcome = Pending
    /\ pullRequest = NoPullRequest
    /\ gitOps = <<>>
    /\ written = <<>>
    /\ outputs = <<>>
    /\ exitCode = 0
    /\ logged = <<>>
    /\ earlier = None
    /\ apiBaseUrl = None

\* buildReleasePlan called on a client that GiteaClient.create made from the
\* host's repository metadata
Init ==
    /\ mode = "planner"
    /\ pc = "resolveTagContext"
    /\ options \in OptionChoices
    /\ inputs = NoInputs
    /\ env = NoEnv
    /\ repository = parseRepositoryResponse(
                        [default_branch |-> Some("main"), html_url |-> Some(HtmlUrl)],
                        Owner, RepoName)
    /\ hostFiles \in HostFileSets
    /\ hostTags \in TagLists
    /\ suspended = None
    /\ Untouched

\* buildReleasePlan called with or without a component, on a target branch
\* that holds a changelog
InitTwice ==
    /\ mode = "planner"
    /\ pc = "resolveTagContext"
    /\ options \in {DefaultOptions, [DefaultOptions EXCEPT !.component = Some(CompName)]}
    /\ inputs = NoInputs
    /\ env = NoEnv
    /\ repository = parseRepositoryResponse(
                        [default_branch |-> Some("main"), html_url |-> Some(HtmlUrl)],
                        Owner, RepoName)
    /\ hostFiles = {"CHANGELOG.md"}
    /\ hostTags \in TagLists
    /\ suspended = None
    /\ Untouched

\* the tags of a host that holds, behind its newest tag, an older tag of
\* the component comp
OlderTagLists ==
    {<<[name |-> n, commit |-> [sha |-> c]],
       [name |-> TagCompV120, commit |-> [sha |-> Some("def456")]]>> :
        n \in TagNames, c \in {None, Some("abc123")}}

\* buildReleasePlan called, with or without the component comp, against a
\* host that holds two tags
InitOlderTags ==
    /\ mode = "planner"
    /\ pc = "resolveTagContext"
    /\ options \in {DefaultOptions, [DefaultOptions EXCEPT !.component = Some(CompName)]}
    /\ inputs = NoInputs
    /\ env = NoEnv
    /\ repository = parseRepositoryResponse(
                        [default_branch |-> Some("main"), html_url |-> Some(HtmlUrl)],
                        Owner, RepoName)
    /\ hostFiles = {}
    /\ hostTags \in OlderTagLists
    /\ suspended = None
    /\ Untouched

\* two calls of buildReleasePlan on one planner, neither past its first
\* await: one for the default branch, which holds a changelog, the other for
\* the same branch, for another branch without a changelog, or for a
\* component
InitConcurrent ==
    /\ mode = "concurrent"
    /\ pc = "resolveTagContext"
    /\ options = DefaultOptions
    /\ inputs = NoInputs
    /\ env = NoEnv
    /\ repository = parseRepositoryResponse(
                        [default_branch |-> Some("main"), html_url |-> Some(HtmlUrl)],
                        Owner, RepoName)
    /\ hostFiles = {"CHANGELOG.md"}
    /\ hostTags \in ConcurrentTagLists
    /\ Untouched
    /\ \E other \in {DefaultOptions,
                      [DefaultOptions EXCEPT !.targetBranch = Some("develop")],
                      [DefaultOptions EXCEPT !.component = Some(CompName)]} :
          suspended =
              Some([pc |-> "resolveTagContext", options |-> other,
                    hostFiles |-> IF IsSome(other.targetBranch) THEN {}
                                  ELSE {"CHANGELOG.md"},
                    requests |-> <<>>, tags |-> None, tagContext |-> None,
                    commitResponse |-> None, walked |-> None, commits |-> None,
                    fetchedFiles |-> <<>>, plan |-> None, outcome |-> Pending])

\* buildReleasePlan called with the options of the versioning strategy, on
\* a target branch without a changelog
InitBump ==
    /\ mode = "planner"
    /\ pc = "resolveTagContext"
    /\ options \in BumpOptionChoices
    /\ inputs = NoInputs
    /\ env = NoEnv
    /\ repository = parseRepositoryResponse(
                        [default_branch |-> Some("main"), html_url |-> Some(HtmlUrl)],
                        Owner, RepoName)
    /\ hostFiles = {}
    /\ hostTags \in TagLists
    /\ suspended = None
    /\ Untouched

\* buildReleasePlan called with the options that shape the tag, on a target
\* branch without a changelog
InitTag ==
    /\ mode = "planner"
    /\ pc = "resolveTagContext"
    /\ options \in TagOptionChoices
    /\ inputs = NoInputs
    /\ env = NoEnv
    /\ repository = parseRepositoryResponse(
                        [default_branch |-> Some("main"), html_url |-> Some(HtmlUrl)],
                        Owner, RepoName)
    /\ hostFiles = {}
    /\ hostTags \in TagLists
    /\ suspended = None
    /\ Untouched

-----------------------------------------------------------------------------
(* normalizeApiBaseUrl *)

\* the characters String.prototype.trim removes, of those the model writes
Whitespace == {" ", "\t"}

\* serverUrl.trim(): the leading white space goes
RECURSIVE TrimStart(_)
TrimStart(s) ==
    IF s # <<>> /\ Head(s) \in Whitespace THEN TrimStart(Tail(s)) ELSE s

\* serverUrl.trim(): the trailing white space goes
RECURSIVE TrimEnd(_)
TrimEnd(s) ==
    IF s # <<>> /\ s[Len(s)] \in Whitespace THEN TrimEnd(SubSeq(s, 1, Len(s) - 1)) ELSE s

\* .replace(/\/+$/, '')
RECURSIVE StripTrailingSlashes(_)
StripTrailingSlashes(s) ==
    IF s # <<>> /\ s[Len(s)] = "/" THEN StripTrailingSlashes(SubSeq(s, 1, Len(s) - 1)) ELSE s

\* the i flag of the two patterns, on the letters they name
Lowered(s) ==
    [i \in 1..Len(s) |-> CASE s[i] = "A" -> "a"
                           [] s[i] = "P" -> "p"
                           [] s[i] = "I" -> "i"
                           [] s[i] = "V" -> "v"
                           [] OTHER -> s[i]]

ApiSuffix == <<"/", "a", "p", "i">>
ApiVersionPrefix == <<"/", "a", "p", "i", "/", "v">>

\* /\/api\/v\d+(\/.*)?$/i matches from position i: /api/v, then \d+ takes
\* every digit that follows, then the string ends or a slash follows
HasApiVersionAt(s, i) ==
    /\ i + 5 <= Len(s)
    /\ Lowered(SubSeq(s, i, i + 5)) = ApiVersionPrefix
    /\ DigitRun(SubSeq(s, i + 6, Len(s))) >= 1
    /\ \/ i + 6 + DigitRun(SubSeq(s, i + 6, Len(s))) > Len(s)
       \/ s[i + 6 + DigitRun(SubSeq(s, i + 6, Len(s)))] = "/"

\* /\/api\/v\d+(\/.*)?$/i.test(trimmed)
HasApiVersion(s) == \E i \in 1..Len(s) : HasApiVersionAt(s, i)

\* /\/api$/i.test(trimmed)
EndsWithApi(s) ==
    /\ Len(s) >= Len(ApiSuffix)
    /\ Lowered(SubSeq(s, Len(s) - Len(ApiSuffix) + 1, Len(s))) = ApiSuffix

\* how a call of normalizeApiBaseUrl ends
Returned(value) == [value |-> Some(value), error |-> None]
Thrown(message) == [value |-> None, error |-> Some(message)]

\* normalizeApiBaseUrl, from the test of the trimmed string on
ApiBaseUrlOf(trimmed) ==
    IF trimmed = <<>> THEN Thrown("Server URL cannot be empty.")
    ELSE IF HasApiVersion(trimmed) THEN Returned(trimmed \o <<"/">>)
    ELSE IF EndsWithApi(trimmed) THEN Returned(trimmed \o <<"/", "v", "1", "/">>)
    ELSE Returned(trimmed \o <<"/", "a", "p", "i", "/", "v", "1", "/">>)

normalizeApiBaseUrlKeepingSlashes(serverUrl) == ApiBaseUrlOf(TrimEnd(TrimStart(serverUrl)))
normalizeApiBaseUrl(serverUrl) ==
    ApiBaseUrlOf(StripTrailingSlashes(TrimEnd(TrimStart(serverUrl))))

-----------------------------------------------------------------------------
(* runAction *)

\* buildReleaseOptions
buildReleaseOptions(inputs_, targetBranch) ==
    [DefaultOptions EXCEPT !.targetBranch = Some(targetBranch),
                           !.component = inputs_.component]

\* the repository of the client GiteaClient.create makes without a request
BaseRepository(inputs_) ==
    [owner |-> Owner, repo |-> RepoName,
     defaultBranch |-> OrElse(inputs_.defaultBranch, "main"),
     htmlUrl |-> None]

\* the repository responses of the host
RepositoryBodies ==
    {[default_branch |-> b, html_url |-> Some(HtmlUrl)] : b \in {None, Some("trunk")}}

\* the pull request responses of the host
PullRequestBodies == {[number |-> 7, html_url |-> "https://gitea.example/octo/demo/pulls/7"]}

\* a property of a response body that may be missing
Field(body, name) == IF name \in DOMAIN body THEN Some(body[name]) ELSE None

\* runAction rejects: the catch of the entry point sets the exit code
RunFails ==
    /\ pc' = "exit"
    /\ exitCode' = 1

\* readInput: the value of the variable, trimmed, when it is set and not blank
readInput(key, env_) ==
    IF IsSome(env_[key]) /\ TrimEnd(TrimStart(Get(env_[key]))) # <<>>
    THEN Some(TrimEnd(TrimStart(Get(env_[key]))))
    ELSE None

\* resolveActionInputs: readInput('server-url', env) ?? env.GITEA_SERVER_URL
\* ?? DEFAULT_SERVER_URL
ServerUrlOf(env_) ==
    OrElse(OrElseOpt(readInput("INPUT_SERVER_URL", env_), env_.GITEA_SERVER_URL),
           DEFAULT_SERVER_URL)

\* resolveActionInputs, for a run that has a token and a repository
ResolveActionInputs ==
    /\ pc = "resolveInputs"
    /\ inputs' = [inputs EXCEPT !.serverUrl = ServerUrlOf(env)]
    /\ pc' = "normalize"
    /\ UNCHANGED <<hostTags, suspended, env, apiBaseUrl, earlier, mode, options, repository, hostFiles,
                   requests, tags, tagContext, commitResponse, walked, commits,
                   fetchedFiles, plan, outcome, pullRequest, gitOps, written, outputs,
                   exitCode, logged>>

\* normalizeApiBaseUrl(inputs.serverUrl)
NormalizeApiBaseUrl ==
    /\ pc = "normalize"
    /\ apiBaseUrl' = Some(normalizeApiBaseUrl(inputs.serverUrl))
    /\ IF IsSome(normalizeApiBaseUrl(inputs.serverUrl).error)
       THEN IF mode = "action" THEN RunFails ELSE pc' = "threw" /\ UNCHANGED exitCode
       ELSE /\ pc' = IF mode = "action" THEN "create" ELSE "normalized"
            /\ UNCHANGED exitCode
    /\ UNCHANGED <<hostTags, suspended, env, earlier, mode, options, inputs, repository, hostFiles, requests,
                   tags, tagContext, commitResponse, walked, commits, fetchedFiles, plan,
                   outcome, pullRequest, gitOps, written, outputs, logged>>

\* normalizeApiBaseUrl called on the string it returned
NormalizeAgain ==
    /\ mode = "helper"
    /\ pc = "normalized"
    /\ inputs' = [inputs EXCEPT !.serverUrl = Get(Get(apiBaseUrl).value)]
    /\ apiBaseUrl' = Some(normalizeApiBaseUrl(Get(Get(apiBaseUrl).value)))
    /\ pc' = "renormalized"
    /\ UNCHANGED <<hostTags, suspended, env, earlier, mode, options, repository, hostFiles, requests, tags,
                   tagContext, commitResponse, walked, commits, fetchedFiles, plan,
                   outcome, pullRequest, gitOps, written, outputs, exitCode, logged>>

NextUrl == NormalizeApiBaseUrl \/ NormalizeAgain

NextEnv == ResolveActionInputs \/ NextUrl

Git(cmd, ok) == [cmd |-> cmd, ok |-> ok]

\* the commands of cmds that are run when the one at position failAt fails
\* (0: none fails)
GitRun(cmds, failAt) ==
    [i \in 1..(IF failAt = 0 THEN Len(cmds) ELSE failAt) |-> Git(cmds[i], i # failAt)]

\* value.replace(/\r?\n/g, '%0A') of the lines of a text
RECURSIVE EscapeLines(_)
EscapeLines(lines) ==
    IF lines = <<>> THEN ""
    ELSE IF Len(lines) = 1 THEN Head(lines)
    ELSE Head(lines) \o "%0A" \o EscapeLines(Tail(lines))

\* GiteaClient.create, then the call of buildReleasePlan
CreateClient ==
    /\ pc = "create"
    /\ IF IsSome(inputs.defaultBranch) /\ Get(inputs.defaultBranch) # ""
       THEN /\ options' = buildReleaseOptions(inputs,
                              OrElse(inputs.targetBranch, repository.defaultBranch))
            /\ pc' = "resolveTagContext"
            /\ UNCHANGED <<requests, repository, exitCode>>
       ELSE \E status \in ListStatuses, body \in RepositoryBodies :
              LET err == RequestError(status, "GET", "repo")
                  fetched == parseRepositoryResponse(body, Owner, RepoName)
              IN
              /\ requests' = Append(requests, RepositoryRequest(status, body))
              /\ IF IsSome(err)
                 THEN /\ RunFails
                      /\ UNCHANGED <<repository, options>>
                 ELSE /\ repository' = fetched
                      /\ options' = buildReleaseOptions(inputs,
                                        OrElse(inputs.targetBranch, fetched.defaultBranch))
                      /\ pc' = "resolveTagContext"
                      /\ UNCHANGED exitCode
    /\ UNCHANGED <<hostTags, suspended, env, apiBaseUrl, earlier, mode, inputs, hostFiles, tags, tagContext, commitResponse, walked,
                   commits, fetchedFiles, plan, outcome, pullRequest, gitOps, written,
                   outputs, logged>>

\* runGit with a failed command taken as done: the run goes on to next
RunGitGoingOn(cmds, next) ==
    \E failAt \in 0..Len(cmds) :
       /\ gitOps' = gitOps \o GitRun(cmds, failAt)
       /\ pc' = next
       /\ UNCHANGED exitCode

\* runGit for each command of cmds in turn: the run fails at the first
\* command that fails and goes on to next when none does
RunGit(cmds, next) ==
    \E failAt \in 0..Len(cmds) :
       /\ gitOps' = gitOps \o GitRun(cmds, failAt)
       /\ IF failAt # 0 THEN RunFails ELSE pc' = next /\ UNCHANGED exitCode

\* ensureGitIdentity
EnsureGitIdentity ==
    /\ pc = "ensureGitIdentity"
    /\ RunGit(<<"config user.name", "config user.email">>,
              IF Get(plan).updates = <<>> THEN "hasWorkingTreeChanges"
              ELSE "applyPlannedUpdates")
    /\ UNCHANGED <<hostTags, suspended, env, apiBaseUrl, earlier, mode, options, inputs, repository, hostFiles, requests, tags,
                   tagContext, commitResponse, walked, commits, fetchedFiles, plan,
                   outcome, pullRequest, written, outputs, logged>>

\* applyPlannedUpdates: one turn of the loop, the file written and staged
ApplyPlannedUpdates ==
    /\ pc = "applyPlannedUpdates"
    /\ LET update == Get(plan).updates[Len(written) + 1] IN
       /\ written' = Append(written, update.path)
       /\ \E ok \in BOOLEAN :
            /\ gitOps' = Append(gitOps, Git("add", ok))
            /\ IF ~ok THEN RunFails
               ELSE /\ pc' = IF Len(written') = Len(Get(plan).updates)
                             THEN "hasWorkingTreeChanges" ELSE "applyPlannedUpdates"
                    /\ UNCHANGED exitCode
    /\ UNCHANGED <<hostTags, suspended, env, apiBaseUrl, earlier, mode, options, inputs, repository, hostFiles, requests, tags,
                   tagContext, commitResponse, walked, commits, fetchedFiles, plan,
                   outcome, pullRequest, outputs, logged>>

\* hasWorkingTreeChanges, and the outputs of a run without changes
HasWorkingTreeChanges ==
    /\ pc = "hasWorkingTreeChanges"
    /\ \E result \in {"failed", "clean", "changed"} :
         /\ gitOps' = Append(gitOps, Git("status", result # "failed"))
         /\ CASE result = "failed" -> RunFails /\ UNCHANGED outputs
              [] result = "clean" ->
                   /\ outputs' = outputs \o <<<<"skipped", "true">>, <<"reason", "no_changes">>>>
                   /\ pc' = "exit"
                   /\ UNCHANGED exitCode
              [] result = "changed" ->
                   /\ pc' = "checkout"
                   /\ UNCHANGED <<outputs, exitCode>>
    /\ UNCHANGED <<hostTags, suspended, env, apiBaseUrl, earlier, mode, options, inputs, repository, hostFiles, requests, tags,
                   tagContext, commitResponse, walked, commits, fetchedFiles, plan,
                   outcome, pullRequest, written, logged>>

\* git checkout -B headBranchName
Checkout ==
    /\ pc = "checkout"
    /\ RunGit(<<"checkout">>, "commit")
    /\ UNCHANGED <<hostTags, suspended, env, apiBaseUrl, earlier, mode, options, inputs, repository, hostFiles, requests, tags,
                   tagContext, commitResponse, walked, commits, fetchedFiles, plan,
                   outcome, pullRequest, written, outputs, logged>>

\* git commit -m pullRequestTitle
Commit ==
    /\ pc = "commit"
    /\ RunGit(<<"commit">>, "push")
    /\ UNCHANGED <<hostTags, suspended, env, apiBaseUrl, earlier, mode, options, inputs, repository, hostFiles, requests, tags,
                   tagContext, commitResponse, walked, commits, fetchedFiles, plan,
                   outcome, pullRequest, written, outputs, logged>>

\* git push --force-with-lease pushRemote headBranchName:headBranchName
Push ==
    /\ pc = "push"
    /\ RunGit(<<"push">>, "createPullRequest")
    /\ UNCHANGED <<hostTags, suspended, env, apiBaseUrl, earlier, mode, options, inputs, repository, hostFiles, requests, tags,
                   tagContext, commitResponse, walked, commits, fetchedFiles, plan,
                   outcome, pullRequest, written, outputs, logged>>

\* client.createPullRequest in its try block
CreatePullRequest ==
    /\ pc = "createPullRequest"
    /\ \E status \in CreateStatuses, body \in PullRequestBodies :
         LET err == RequestError(status, "POST", "pulls") IN
         /\ requests' = Append(requests, Request("POST", "pulls", status))
         /\ IF ~IsSome(err)
            THEN /\ pullRequest' = [url |-> Field(body, "htmlUrl"),
                                    number |-> Field(body, "number")]
                 /\ pc' = "outputs"
                 /\ UNCHANGED exitCode
            ELSE IF Get(err).status = Some(CONFLICT)
            THEN /\ pc' = "outputs"
                 /\ UNCHANGED <<pullRequest, exitCode>>
            ELSE /\ RunFails
                 /\ UNCHANGED pullRequest
    /\ UNCHANGED <<hostTags, suspended, env, apiBaseUrl, earlier, mode, options, inputs, repository, hostFiles, tags, tagContext,
                   commitResponse, walked, commits, fetchedFiles, plan, outcome, gitOps,
                   written, outputs, logged>>

\* the outputs appended at the end of a run that pushed
WriteOutputs ==
    /\ pc = "outputs"
    /\ outputs' = outputs
         \o <<<<"skipped", "false">>,
              <<"version", VersionString(Get(plan).version)>>,
              <<"tag", Get(plan).currentTag>>,
              <<"head-branch", Get(plan).headBranchName>>,
              <<"pull-request-title", Get(plan).pullRequestTitle>>,
              <<"pull-request-body", EscapeLines(Get(plan).pullRequestBody)>>>>
         \o (IF IsSome(pullRequest.url)
               THEN <<<<"pull-request-url", Get(pullRequest.url)>>>> ELSE <<>>)
         \o (IF IsSome(pullRequest.number)
               THEN <<<<"pull-request-number", ToString(Get(pullRequest.number))>>>>
               ELSE <<>>)
    /\ pc' = "exit"
    /\ UNCHANGED <<hostTags, suspended, env, apiBaseUrl, earlier, mode, options, inputs, repository, hostFiles, requests, tags,
                   tagContext, commitResponse, walked, commits, fetchedFiles, plan,
                   outcome, pullRequest, gitOps, written, exitCode, logged>>

NextAction ==
    \/ ResolveActionInputs
    \/ NormalizeApiBaseUrl
    \/ CreateClient
    \/ EnsureGitIdentity
    \/ ApplyPlannedUpdates
    \/ HasWorkingTreeChanges
    \/ Checkout
    \/ Commit
    \/ Push
    \/ CreatePullRequest
    \/ WriteOutputs

Next == NextPlan \/ NextAction

InputChoices ==
    {NoInputs,
     [NoInputs EXCEPT !.defaultBranch = Some("main")],
     [NoInputs EXCEPT !.defaultBranch = Some("")],
     [NoInputs EXCEPT !.targetBranch = Some("develop")],
     [NoInputs EXCEPT !.component = Some(CompName)]}

\* runAction started: the inputs other than the server URL as
\* resolveActionInputs reads them, the server URL variables unset or blank
InitAction ==
    /\ mode = "action"
    /\ pc = "resolveInputs"
    /\ inputs \in InputChoices
    /\ env \in {NoEnv, [NoEnv EXCEPT !.GITEA_SERVER_URL = Some(<<" ">>)]}
    /\ options = DefaultOptions
    /\ repository = BaseRepository(inputs)
    /\ hostFiles \in HostFileSets
    /\ hostTags \in TagLists
    /\ suspended = None
    /\ Untouched

\* the character c, n times
Repeat(c, n) == [i \in 1..n |-> c]

\* server URLs without an API path: the default one, and one under a sub-path
Servers == {DEFAULT_SERVER_URL, DEFAULT_SERVER_URL \o <<"/", "g", "i", "t">>}

\* the strings handed to normalizeApiBaseUrl: a server followed by nothing,
\* /api, /api/v1, /api/v2 or /API, then slashes, with white space around
\* it; white space alone; slashes alone
ServerUrls ==
    {Repeat(" ", a) \o server \o suffix \o Repeat("/", k) \o Repeat(" ", b) :
        a \in 0..MaxPadding, server \in Servers,
        suffix \in {<<>>, ApiSuffix, ApiVersionPrefix \o <<"1">>,
                    ApiVersionPrefix \o <<"2">>, <<"/", "A", "P", "I">>},
        k \in 0..MaxSlashes, b \in 0..MaxPadding}
    \cup {Repeat(" ", n) : n \in 0..(MaxPadding + 1)}
    \cup {Repeat("/", k) : k \in 1..MaxSlashes}

\* normalizeApiBaseUrl called directly
InitUrl ==
    /\ mode = "helper"
    /\ pc = "normalize"
    /\ inputs \in {[NoInputs EXCEPT !.serverUrl = url] : url \in ServerUrls}
    /\ env = NoEnv
    /\ options = DefaultOptions
    /\ repository = BaseRepository(inputs)
    /\ hostFiles = {}
    /\ hostTags = <<>>
    /\ suspended = None
    /\ Untouched

\* 'https://gitea.'
HttpsGitea == <<"h", "t", "t", "p", "s", ":", "/", "/", "g", "i", "t", "e", "a", ".">>

\* the server URLs of the tests of the resolution
ExampleCom == HttpsGitea \o <<"e", "x", "a", "m", "p", "l", "e", ".", "c", "o", "m">>
ExampleOrg == HttpsGitea \o <<"e", "x", "a", "m", "p", "l", "e", ".", "o", "r", "g">>
CompanyTest == HttpsGitea \o <<"c", "o", "m", "p", "a", "n", "y", ".", "t", "e", "s", "t">>
Internal == HttpsGitea \o <<"i", "n", "t", "e", "r", "n", "a", "l">>

\* process.env: the input unset, empty, blank, a server, the server padded,
\* the server of the workflow example, that server with a slash, the default
\* server; the variable unset, a server, another, empty, the example's
Envs ==
    [INPUT_SERVER_URL : {None, Some(<<>>), Some(<<" ">>), Some(ExampleOrg),
                         Some(<<" ">> \o ExampleOrg \o <<" ">>), Some(ExampleCom),
                         Some(ExampleCom \o <<"/">>), Some(DEFAULT_SERVER_URL)},
     GITEA_SERVER_URL : {None, Some(CompanyTest), Some(Internal), Some(<<>>),
                         Some(ExampleCom)}]

\* resolveActionInputs called on an environment, then normalizeApiBaseUrl
InitEnv ==
    /\ mode = "helper"
    /\ pc = "resolveInputs"
    /\ inputs = NoInputs
    /\ env \in Envs
    /\ options = DefaultOptions
    /\ repository = BaseRepository(inputs)
    /\ hostFiles = {}
    /\ hostTags = <<>>
    /\ suspended = None
    /\ Untouched

\* buildReleasePlan called directly
Spec == Init /\ [][NextPlan]_vars

\* the server URL resolved from the environment, then normalised
SpecEnv == InitEnv /\ [][NextEnv]_vars

\* normalizeApiBaseUrl called directly, then on its own result
SpecUrl == InitUrl /\ [][NextUrl]_vars

\* one run of the action
SpecAction == InitAction /\ [][Next]_vars

\* buildReleasePlan called directly, with the options of the versioning strategy
SpecBump == InitBump /\ [][NextPlan]_vars

\* buildReleasePlan called directly, with the options that shape the tag
SpecTag == InitTag /\ [][NextPlan]_vars

\* two invocations of buildReleasePlan on one planner, their awaits
\* interleaved
SpecConcurrent == InitConcurrent /\ [][NextConcurrent]_vars

\* buildReleasePlan called twice on one planner while the host stays as it is
SpecTwice == InitTwice /\ [][NextTwice]_vars

\* the planner against a host that holds two tags
SpecOlderTags == InitOlderTags /\ [][NextPlan]_vars

-----------------------------------------------------------------------------
(* Properties of the history walk *)

\* a previous tag was resolved and it names a commit
HasBoundary ==
    /\ IsSome(tagContext)
    /\ IsSome(Get(tagContext).previousTag)
    /\ IsSome(Get(Get(tagContext).previousTag).commitSha)

\* the sha of the previous tag's commit
PreviousTagSha == Get(Get(Get(tagContext).previousTag).commitSha)

\* the positions of the previous tag's commit in the fetched list
BoundaryPositions ==
    {i \in 1..Len(Get(commitResponse)) : Get(commitResponse)[i].sha = PreviousTagSha}

\* the previous tag's commit occurs in the fetched list
BoundaryFetched == HasBoundary /\ IsSome(commitResponse) /\ BoundaryPositions # {}

\* C1: whenever the previous tag's commit sha occurs in the fetched commit
\* list, no commit of the returned plan has that sha
C1_BoundaryNotInPlan ==
    (IsSome(plan) /\ BoundaryFetched) =>
        \A i \in 1..Len(Get(plan).commits) : Get(plan).commits[i].sha # PreviousTagSha

\* a plan was returned for a list whose second commit is the boundary commit
C1_Witness ==
    /\ IsSome(plan)
    /\ BoundaryFetched
    /\ 2 \in BoundaryPositions
    /\ Len(Get(plan).commits) = 1

\* C2: whenever the boundary sha occurs in the fetched list, the commits
\* handed to the parser are exactly the fetched commits before the first
\* occurrence of the boundary sha, in the fetched order
C2_WalkIsPrefix ==
    (IsSome(walked) /\ BoundaryFetched) =>
        Get(walked) = SubSeq(Get(commitResponse), 1, Min(BoundaryPositions) - 1)

\* the walk stopped at a boundary commit that is the newest fetched commit
\* and left an older commit out
C2_Witness ==
    /\ IsSome(walked)
    /\ BoundaryFetched
    /\ 1 \in BoundaryPositions
    /\ Len(Get(commitResponse)) = 2
    /\ Get(walked) = <<>>

\* C3: when a previous tag exists and its commit sha is not among the
\* fetched commits, no plan is returned that takes the whole fetched list as
\* the commits of the release without a word in the log
C3_NoSilentFullList ==
    (IsSome(plan) /\ HasBoundary /\ BoundaryPositions = {}) =>
        (Get(walked) # Get(commitResponse) \/ logged # <<>>)

\* a plan was returned for the tag v1.2.0 at abc123 and a fetched list that
\* does not hold abc123: the whole list became the commits of the release
C3_Failing ==
    /\ IsSome(plan)
    /\ HasBoundary
    /\ PreviousTagSha = "abc123"
    /\ BoundaryPositions = {}
    /\ Get(walked) = Get(commitResponse)
    /\ Len(Get(plan).commits) = Len(Get(commitResponse))
    /\ logged = <<>>

\* the host reported no tags
NoTags == IsSome(tags) /\ Get(tags) = <<>>

\* options.initialVersion, or 0.0.0
InitialBase ==
    IF IsSome(options.initialVersion)
    THEN Get(VersionParse(Get(options.initialVersion)))
    ELSE MkVersion(0, 0, 0, <<>>)

\* C4: when the host reports no tags, every fetched commit is handed to the
\* parser, the plan has no previousTag, its version is the bump of
\* options.initialVersion (or of 0.0.0), and a single fix commit with no
\* option given gives the tag v0.0.1
C4_InitialRelease ==
    NoTags =>
        /\ (IsSome(walked) => Get(walked) = Get(commitResponse))
        /\ (IsSome(plan) =>
             /\ Get(plan).previousTag = None
             /\ Get(plan).version =
                    bump(InitialBase, Get(plan).commits,
                         OrElse(options.bumpMinorPreMajor, FALSE),
                         OrElse(options.bumpPatchForMinorPreMajor, FALSE))
             /\ ((/\ options = DefaultOptions
                  /\ Len(Get(commitResponse)) = 1
                  /\ Get(commitResponse)[1].message = MsgFix)
                 => Get(plan).currentTag = "v0.0.1")
             /\ ((/\ options = [DefaultOptions EXCEPT !.initialVersion = Some(InitialVersionChars)]
                  /\ Len(Get(commitResponse)) = 1
                  /\ Get(commitResponse)[1].message = MsgFix)
                 => Get(plan).currentTag = "v1.0.1"))

\* an initial release from options.initialVersion = 1.0.0 with one fix commit
C4_Witness ==
    /\ NoTags
    /\ IsSome(plan)
    /\ options.initialVersion = Some(InitialVersionChars)
    /\ Len(Get(commitResponse)) = 1
    /\ Get(plan).currentTag = "v1.0.1"

\* buildReleasePlan found no conventional commit since the last release
NothingToRelease == IsSome(commits) /\ Get(commits) = <<>>

\* C5: "nothing to release" does not come out through the channel that
\* failures of the Gitea client come out through, the rejection of the
\* promise of buildReleasePlan
C5_NothingToReleaseOwnChannel ==
    NothingToRelease => outcome.channel # "rejected"

\* nothing to release came out as a rejection, with a plain Error
C5_Failing ==
    /\ NothingToRelease
    /\ outcome = Rejected(NoCommitsError)
    /\ plan = None

\* the message of a fetched commit is not a Conventional Commit
NotConventional(c) == ParseMessage(c.sha, c.message) = None

\* a fetched commit that is conventional, or the previous tag's commit
ConventionalOrBoundary(c) ==
    ~NotConventional(c) \/ (HasBoundary /\ c.sha = PreviousTagSha)

\* C13: a fetched commit whose message is not a Conventional Commit is in
\* no plan, and the plan's commits and version are those of the fetched list
\* without such commits; yet the walk stops at such a commit when it is the
\* previous tag's commit, and keeps such a commit that is newer than the
\* previous tag's commit without stopping short
C13_NonConventionalCommits ==
    /\ IsSome(plan) =>
         /\ \A i \in 1..Len(Get(commitResponse)), j \in 1..Len(Get(plan).commits) :
                NotConventional(Get(commitResponse)[i]) =>
                    Get(plan).commits[j].sha # Get(commitResponse)[i].sha
         /\ Get(plan).commits =
                fetchConventionalCommits(
                    SelectSeq(Get(commitResponse), ConventionalOrBoundary), Get(tagContext))
         /\ Get(plan).version =
                bump(CurrentVersion(options, Get(tagContext)),
                     fetchConventionalCommits(
                         SelectSeq(Get(commitResponse), ConventionalOrBoundary),
                         Get(tagContext)),
                     OrElse(options.bumpMinorPreMajor, FALSE),
                     OrElse(options.bumpPatchForMinorPreMajor, FALSE))
    /\ (IsSome(walked) /\ BoundaryFetched) =>
         \A i \in 1..Len(Get(commitResponse)) :
            NotConventional(Get(commitResponse)[i]) =>
                /\ i = Min(BoundaryPositions) => Len(Get(walked)) = i - 1
                /\ i < Min(BoundaryPositions) =>
                      /\ Len(Get(walked)) = Min(BoundaryPositions) - 1
                      /\ Get(walked)[i] = Get(commitResponse)[i]

\* a plan was returned for a feat commit on top of the previous tag's
\* commit, whose message is not a Conventional Commit
C13_Witness ==
    /\ IsSome(plan)
    /\ BoundaryFetched
    /\ Len(Get(commitResponse)) = 2
    /\ 2 \in BoundaryPositions
    /\ Get(commitResponse)[2].message = MsgPlain
    /\ Len(Get(plan).commits) = 1
    /\ Get(plan).commits[1].sha = Get(commitResponse)[1].sha

\* the host reported a newest tag whose name TagName.parse cannot read
UnparseableLatestTag ==
    IsSome(tags) /\ Get(tags) # <<>> /\ TagParse(Get(tags)[1].name) = None

\* C12: when the newest tag's name cannot be parsed, listing the tags does
\* not reject the invocation; the previous tag is absent from the context
\* and from the plan, one warning is logged, every fetched commit is walked
\* and the version is bumped from options.initialVersion or 0.0.0
C12_UnparseableTagIsInitial ==
    UnparseableLatestTag =>
        /\ IsSome(tagContext)
        /\ Get(tagContext).previousTag = None
        /\ logged = <<"warn">>
        /\ (Len(requests) = 1 => outcome = Pending)
        /\ (IsSome(walked) => Get(walked) = Get(commitResponse))
        /\ (IsSome(plan) =>
             /\ Get(plan).previousTag = None
             /\ Get(plan).version =
                    bump(InitialBase, Get(plan).commits,
                         OrElse(options.bumpMinorPreMajor, FALSE),
                         OrElse(options.bumpPatchForMinorPreMajor, FALSE)))

\* a plan was returned although the newest tag is named "latest" and sits
\* on a fetched commit
C12_Witness ==
    /\ UnparseableLatestTag
    /\ Get(tags)[1].name = TagLatest
    /\ IsSome(plan)
    /\ Len(Get(commitResponse)) = 2
    /\ Get(tags)[1].commit.sha = Some(Get(commitResponse)[1].sha)
    /\ Len(Get(plan).commits) >= 1

\* the fields of a plan that a second invocation must reproduce
Reproduced(p) ==
    <<p.version, p.currentTag, p.changelogEntry, p.pullRequestTitle, p.pullRequestBody,
      p.headBranchName>>

-----------------------------------------------------------------------------
(* Properties of the version bump *)

\* the version the bump starts from: the previous tag's, or the initial one
BaseVersion ==
    IF IsSome(Get(tagContext).previousTag)
    THEN Get(Get(tagContext).previousTag).tag.version
    ELSE InitialBase

\* the plan's commits hold a fix, a feat or a breaking commit
PlanQualifies ==
    HasBreaking(Get(plan).commits) \/ HasFeature(Get(plan).commits) \/ HasFix(Get(plan).commits)

\* C15: whenever the commits of the returned plan hold a fix, a feat or a
\* breaking commit, the plan's version is strictly greater than the base
\* version under the Version order, whatever bumpMinorPreMajor and
\* bumpPatchForMinorPreMajor are
C15_BumpIsMonotonic ==
    (IsSome(plan) /\ PlanQualifies) => VersionLess(BaseVersion, Get(plan).version)

\* a feat commit on 0.1.0 with bumpPatchForMinorPreMajor gave 0.1.1
C15_Witness ==
    /\ IsSome(plan)
    /\ options.bumpPatchForMinorPreMajor = Some(TRUE)
    /\ options.bumpMinorPreMajor = None
    /\ BaseVersion = MkVersion(0, 1, 0, <<>>)
    /\ HasFeature(Get(plan).commits)
    /\ ~HasBreaking(Get(plan).commits)
    /\ Get(plan).version = MkVersion(0, 1, 1, <<>>)

\* the plan's version is the one precedence over the plan's commits gives:
\* major for a breaking commit, else minor for a feat, else patch for a fix
ByPrecedence ==
    IF HasBreaking(Get(plan).commits)
      THEN Get(plan).version = MkVersion(BaseVersion.major + 1, 0, 0, <<>>)
    ELSE IF HasFeature(Get(plan).commits)
      THEN Get(plan).version = MkVersion(BaseVersion.major, BaseVersion.minor + 1, 0, <<>>)
    ELSE HasFix(Get(plan).commits) =>
           Get(plan).version =
               MkVersion(BaseVersion.major, BaseVersion.minor, BaseVersion.patch + 1, <<>>)

\* C16 as stated: the version of every plan is the one precedence over the
\* whole commit set gives, for every base version and all options
C16_PrecedenceAlways ==
    IsSome(plan) => ByPrecedence

\* C16 as amended: when the base version has no prerelease label, and its
\* major is at least 1 or neither bumpMinorPreMajor nor
\* bumpPatchForMinorPreMajor is set, the version of the plan is the one
\* precedence over the whole commit set gives; base 1.2.0 with one feat
\* commit gives 1.3.0
C16_PrecedenceOfReleases ==
    (/\ IsSome(plan)
     /\ BaseVersion.preRelease = <<>>
     /\ \/ BaseVersion.major >= 1
        \/ (options.bumpMinorPreMajor = None /\ options.bumpPatchForMinorPreMajor = None))
    => /\ ByPrecedence
       /\ (/\ BaseVersion = MkVersion(1, 2, 0, <<>>)
           /\ Len(Get(commitResponse)) = 1
           /\ Get(commitResponse)[1].message = MsgFeat)
          => Get(plan).version = MkVersion(1, 3, 0, <<>>)

\* a fix newer than a feat on 1.2.0 gave the minor bump 1.3.0
C16_Witness ==
    /\ IsSome(plan)
    /\ BaseVersion = MkVersion(1, 2, 0, <<>>)
    /\ Len(Get(plan).commits) = 2
    /\ Get(plan).commits[1].type = "fix"
    /\ Get(plan).commits[2].type = "feat"
    /\ ~HasBreaking(Get(plan).commits)
    /\ Get(plan).version = MkVersion(1, 3, 0, <<>>)

-----------------------------------------------------------------------------
(* Properties of the tag name *)

\* parsed is a tag name with this version and the component, separator and
\* includeV of the tag context
SameTagFields(parsed, version, ctx) ==
    parsed = Some(MkTagName(version, ctx.component, ctx.separator, ctx.includeV))

\* parsing the tag formatted for the plan gives back the version of the
\* plan and the component, separator and includeV it was formatted from
TagRoundTrips ==
    SameTagFields(TagParse(TagChars(buildNextTag(Get(plan).version, Get(tagContext)))),
                  Get(plan).version, Get(tagContext))

WrittenInTag(ctx) ==
    \/ IsSome(ctx.component) /\ ctx.separator \in {Some(<<"-">>), Some(<<"/">>)}
    \/ ctx.component = None /\ ctx.separator = None

-----------------------------------------------------------------------------
(* Properties of the pull request title and the head branch *)

\* options.targetBranch ?? client.repository.defaultBranch
TargetBranch == OrElse(options.targetBranch, repository.defaultBranch)

\* C18: with no title pattern given, the plan's pullRequestTitle is
\* chore(<targetBranch>): release <version of the plan>, targetBranch being
\* options.targetBranch or else the client's default branch, and it is the
\* commit message of every staged update
C18_PullRequestTitle ==
    (IsSome(plan) /\ options.pullRequestTitlePattern = None) =>
        /\ Get(plan).pullRequestTitle =
              "chore(" \o TargetBranch \o "): release " \o VersionString(Get(plan).version)
        /\ \A i \in 1..Len(Get(plan).updates) :
              Get(plan).updates[i].message = Get(plan).pullRequestTitle

\* the plan for 1.3.0 on the target branch develop
C18_Witness ==
    /\ IsSome(plan)
    /\ options.targetBranch = Some("develop")
    /\ repository.defaultBranch = "main"
    /\ Get(plan).pullRequestTitle = "chore(develop): release 1.3.0"
    /\ Len(Get(plan).updates) = 1
    /\ Get(plan).updates[1].message = "chore(develop): release 1.3.0"

\* C19: the plan's headBranchName is release-please--branches--<targetBranch>
\* when options.component is not given and the component-qualified name when
\* it is, whatever the tags, the commits and the version are
C19_HeadBranchName ==
    IsSome(plan) =>
        Get(plan).headBranchName =
            IF IsSome(options.component)
            THEN "release-please--branches--" \o TargetBranch \o "--components--"
                    \o Join(Get(options.component))
            ELSE "release-please--branches--" \o TargetBranch

\* no component option, a previous tag with the component comp: the branch
\* is not qualified
C19_Witness ==
    /\ IsSome(plan)
    /\ options.component = None
    /\ Get(tagContext).component = Some(CompName)
    /\ Get(plan).currentTag = "comp-v1.3.0"
    /\ Get(plan).headBranchName = "release-please--branches--main"

-----------------------------------------------------------------------------
(* Properties of the staged file updates *)

\* the file fetched for a path, if the path was fetched
FetchedFor(path) ==
    {fetchedFiles[j].file : j \in {k \in 1..Len(fetchedFiles) : fetchedFiles[k].path = path}}

\* C8: every staged update carries a sha exactly when its file exists on the
\* target branch, and then the sha of the fetched file; a contents request
\* answered 404 does not reject the plan and stages an update with no sha
C8_MarkerIffFileExisted ==
    /\ IsSome(plan) =>
         \A i \in 1..Len(Get(plan).updates) :
            LET u == Get(plan).updates[i] IN
            /\ IsSome(u.sha) <=> u.path \in hostFiles
            /\ FetchedFor(u.path) # {}
            /\ \A f \in FetchedFor(u.path) :
                 IF IsSome(f) THEN u.sha = Some(Get(f).sha) ELSE u.sha = None
    /\ \A r \in 1..Len(requests) :
         (requests[r].endpoint = "contents" /\ requests[r].status = NOT_FOUND) =>
            /\ outcome.channel = "fulfilled"
            /\ IsSome(plan)
            /\ \A i \in 1..Len(Get(plan).updates) : Get(plan).updates[i].sha = None

\* the changelog exists on the target branch and its update carries its sha
C8_Witness ==
    /\ IsSome(plan)
    /\ "CHANGELOG.md" \in hostFiles
    /\ Len(Get(plan).updates) >= 1
    /\ Get(plan).updates[1].path = "CHANGELOG.md"
    /\ Get(plan).updates[1].sha = Some("changelogsha")

\* the paths of the staged updates, in order
UpdatePaths == [i \in 1..Len(Get(plan).updates) |-> Get(plan).updates[i].path]

\* C9: when CHANGELOG.md, package.json and package-lock.json all exist on
\* the target branch, the plan stages three updates, one per file, each with
\* the sha of its file
C9_ThreeUpdates ==
    (IsSome(plan) /\ ({"CHANGELOG.md"} \cup ManifestPaths) \subseteq hostFiles) =>
        /\ Len(Get(plan).updates) = 3
        /\ {UpdatePaths[i] : i \in 1..3} = {"CHANGELOG.md"} \cup ManifestPaths
        /\ \A i \in 1..3 : Get(plan).updates[i].sha = Some(FileSha(UpdatePaths[i]))

\* the three files exist and the plan stages the changelog alone
C9_Failing ==
    /\ IsSome(plan)
    /\ ({"CHANGELOG.md"} \cup ManifestPaths) \subseteq hostFiles
    /\ UpdatePaths = <<"CHANGELOG.md">>
    /\ \A i \in 1..Len(requests) :
         requests[i].endpoint = "contents" => i = Len(requests)

\* the value the one call of getFileContents returned
ReturnedFile == fetchedFiles[1].file

\* C11: getFileContents returns undefined exactly when the host answers 404,
\* returns the sha and the content of the answer when the answer is ok, and
\* rethrows the GiteaAPIError of every other status
C11_GetFileContents ==
    \A i \in 1..Len(requests) :
        requests[i].endpoint = "contents" =>
            /\ requests[i].status = NOT_FOUND <=>
                    (Len(fetchedFiles) = 1 /\ ReturnedFile = None)
            /\ ResponseOk(requests[i].status) =>
                    /\ Len(fetchedFiles) = 1
                    /\ IsSome(ReturnedFile)
                    /\ Get(ReturnedFile).sha = Get(requests[i].body).sha
                    /\ Get(ReturnedFile).content = Get(requests[i].body).content
            /\ (~ResponseOk(requests[i].status) /\ requests[i].status # NOT_FOUND) =>
                    /\ fetchedFiles = <<>>
                    /\ outcome = Rejected(GiteaAPIError(requests[i].status, "GET", "contents"))

\* a contents request was answered 404 and getFileContents returned undefined
C11_Witness ==
    /\ Len(requests) = 3
    /\ requests[3].endpoint = "contents"
    /\ requests[3].status = NOT_FOUND
    /\ Len(fetchedFiles) = 1
    /\ ReturnedFile = None
    /\ outcome.channel = "fulfilled"

-----------------------------------------------------------------------------
(* Properties of failed requests *)

\* the answers that abort buildReleasePlan: every answer that is not ok,
\* but 404 to a contents request
FatalAnswer(r) ==
    ~ResponseOk(r.status) /\ ~(r.endpoint = "contents" /\ r.status = NOT_FOUND)

\* the requests of buildReleasePlan
PlanEndpoints == {"tags", "commits", "contents"}

\* C10: a request of buildReleasePlan answered with a fatal status is the
\* last request issued and was issued once; the invocation is rejected with
\* the client's GiteaAPIError of that request, carrying the status, and no
\* plan is returned
C10_FailurePropagates ==
    \A i \in 1..Len(requests) :
        (requests[i].endpoint \in PlanEndpoints /\ FatalAnswer(requests[i])) =>
            /\ i = Len(requests)
            /\ \A j \in 1..Len(requests) : requests[j].endpoint = requests[i].endpoint => j = i
            /\ outcome.channel = "rejected"
            /\ Get(outcome.error).class = "GiteaAPIError"
            /\ Get(outcome.error).status = Some(requests[i].status)
            /\ Get(outcome.error).endpoint = requests[i].endpoint
            /\ plan = None

\* the contents request was answered 500 and the invocation was rejected
C10_Witness ==
    /\ Len(requests) = 3
    /\ requests[3].endpoint = "contents"
    /\ requests[3].status = SERVER_ERROR
    /\ outcome.channel = "rejected"

-----------------------------------------------------------------------------
(* Properties of an action run that finds nothing to release *)

\* C6: in a run where buildReleasePlan finds no conventional commit, no file
\* of the working tree is written, git checkout, commit and push are never
\* run, and createPullRequest is never called
C6_NothingToReleaseNoEffects ==
    NothingToRelease =>
        /\ written = <<>>
        /\ \A i \in 1..Len(gitOps) : gitOps[i].cmd \notin {"checkout", "commit", "push"}
        /\ \A i \in 1..Len(requests) : requests[i].endpoint # "pulls"

\* an action run ended after the planner found nothing to release
C6_Witness ==
    /\ mode = "action"
    /\ NothingToRelease
    /\ Len(Get(commitResponse)) >= 1
    /\ pc = "exit"

\* C7: a run that ends after no conventional commit was found has appended
\* the output skipped=true
C7_SkippedOutput ==
    (pc = "exit" /\ NothingToRelease) =>
        \E i \in 1..Len(outputs) : outputs[i] = <<"skipped", "true">>

\* the run ended with exit code 1 and no output at all
C7_Failing ==
    /\ mode = "action"
    /\ pc = "exit"
    /\ NothingToRelease
    /\ exitCode = 1
    /\ outputs = <<>>

-----------------------------------------------------------------------------
(* Properties of normalizeApiBaseUrl *)

ApiV1Root(server) == server \o <<"/", "a", "p", "i", "/", "v", "1", "/">>

\* url is the server URL alone, or followed by /api or by /api/v1, then any
\* number of slashes, with white space around it
OfClaimedShape(url, server) ==
    \E a \in 0..MaxPadding, k \in 0..MaxSlashes, b \in 0..MaxPadding,
       suffix \in {<<>>, ApiSuffix, ApiVersionPrefix \o <<"1">>} :
        url = Repeat(" ", a) \o server \o suffix \o Repeat("/", k) \o Repeat(" ", b)

Blank(url) == \A i \in 1..Len(url) : url[i] \in Whitespace

\* C20: normalizeApiBaseUrl maps a bare server URL, the URL followed by
\* /api and the URL followed by /api/v1, each with any number of trailing
\* slashes, to <server>/api/v1/ with exactly one trailing slash; it throws
\* 'Server URL cannot be empty.' for an empty or white-space-only string;
\* called on its own result it returns that result unchanged
C20_NormalizeApiBaseUrl ==
    IsSome(apiBaseUrl) =>
        /\ \A server \in Servers :
              OfClaimedShape(inputs.serverUrl, server)
                  => Get(apiBaseUrl) = Returned(ApiV1Root(server))
        /\ Blank(inputs.serverUrl)
              => Get(apiBaseUrl) = Thrown("Server URL cannot be empty.")
        /\ pc = "renormalized" => Get(apiBaseUrl) = Returned(inputs.serverUrl)

\* the default server followed by /api and the most slashes was normalised,
\* and the result was normalised again
C20_Witness ==
    /\ pc = "renormalized"
    /\ inputs.serverUrl = ApiV1Root(DEFAULT_SERVER_URL)
    /\ Get(apiBaseUrl) = Returned(ApiV1Root(DEFAULT_SERVER_URL))

-----------------------------------------------------------------------------
(* Properties of the resolution of the server URL *)

\* the input is provided: set and not blank
InputProvided == IsSome(readInput("INPUT_SERVER_URL", env))

\* the server URL resolveActionInputs has resolved, before anything else
\* is done with it
ServerUrlResolved == pc = "normalize"

\* C21: the server URL is the input when provided, else GITEA_SERVER_URL,
\* else https://gitea.com; an input equal to https://gitea.example.com is
\* replaced by GITEA_SERVER_URL when that variable is set
C21_PlaceholderReplaced ==
    ServerUrlResolved =>
        inputs.serverUrl =
            IF InputProvided /\ ~(/\ Get(readInput("INPUT_SERVER_URL", env)) = ExampleCom
                                  /\ IsSome(env.GITEA_SERVER_URL))
            THEN Get(readInput("INPUT_SERVER_URL", env))
            ELSE IF IsSome(env.GITEA_SERVER_URL) THEN Get(env.GITEA_SERVER_URL)
            ELSE DEFAULT_SERVER_URL

\* the input was https://gitea.example.com, GITEA_SERVER_URL was set to
\* another server, and the input was resolved
C21_Failing ==
    /\ ServerUrlResolved
    /\ env.INPUT_SERVER_URL = Some(ExampleCom)
    /\ env.GITEA_SERVER_URL = Some(CompanyTest)
    /\ inputs.serverUrl = ExampleCom

-----------------------------------------------------------------------------
(* Properties of GiteaClient.create *)

\* a default branch is given to GiteaClient.create: a branch name, which the
\* empty string is not
DefaultBranchGiven == IsSome(inputs.defaultBranch) /\ Get(inputs.defaultBranch) # ""

\* the requests for the repository metadata issued so far
RepositoryRequests == {i \in 1..Len(requests) : requests[i].endpoint = "repo"}

\* GiteaClient.create has returned or thrown
CreateSettled == Len(requests) >= 1 \/ IsSome(options.targetBranch)

\* GiteaClient.create has returned a client: runAction has built the
\* options of the plan
CreateReturned == IsSome(options.targetBranch)

\* C22: GiteaClient.create requests the repository metadata exactly once
\* when no default branch is given and never when one is given; the
\* client's repository.defaultBranch is the given branch, else the host's
\* default_branch, else 'main'
C22_CreateClient ==
    mode = "action" =>
        /\ DefaultBranchGiven => RepositoryRequests = {}
        /\ (~DefaultBranchGiven /\ CreateSettled) => RepositoryRequests = {1}
        /\ (~DefaultBranchGiven /\ ~CreateSettled) => RepositoryRequests = {}
        /\ CreateReturned =>
              repository.defaultBranch =
                  IF DefaultBranchGiven THEN Get(inputs.defaultBranch)
                  ELSE OrElse(Get(requests[1].body).default_branch, "main")

\* no default branch was given, the host's answer had no default_branch,
\* and the run went on to its end with the client on 'main'
C22_Witness ==
    /\ mode = "action"
    /\ inputs.defaultBranch = None
    /\ pc = "exit"
    /\ Len(requests) >= 4
    /\ requests[1].endpoint = "repo"
    /\ requests[1].body = Some([default_branch |-> None, html_url |-> Some(HtmlUrl)])
    /\ repository.defaultBranch = "main"

-----------------------------------------------------------------------------
(* Properties of the outputs of an action run *)

HasOutput(name, value) == \E i \in 1..Len(outputs) : outputs[i] = <<name, value>>

HasOutputNamed(name) == \E i \in 1..Len(outputs) : outputs[i][1] = name

\* the run returned and was not skipped
CompletedUnskipped ==
    /\ mode = "action"
    /\ pc = "exit"
    /\ exitCode = 0
    /\ ~HasOutput("skipped", "true")

\* C23: a run that completes without being skipped has appended
\* skipped=false, version, major, minor, patch, tag and head-branch, with
\* the values of the plan
C23_VersionOutputs ==
    CompletedUnskipped =>
        /\ HasOutput("skipped", "false")
        /\ HasOutput("version", VersionString(Get(plan).version))
        /\ HasOutput("major", ToString(Get(plan).version.major))
        /\ HasOutput("minor", ToString(Get(plan).version.minor))
        /\ HasOutput("patch", ToString(Get(plan).version.patch))
        /\ HasOutput("tag", Get(plan).currentTag)
        /\ HasOutput("head-branch", Get(plan).headBranchName)

\* the run completed with skipped=false, version, tag and head-branch
\* appended, and no output named major, minor or patch
C23_Failing ==
    /\ CompletedUnskipped
    /\ HasOutput("skipped", "false")
    /\ HasOutput("version", VersionString(Get(plan).version))
    /\ HasOutput("tag", Get(plan).currentTag)
    /\ HasOutput("head-branch", Get(plan).headBranchName)
    /\ ~HasOutputNamed("major")
    /\ ~HasOutputNamed("minor")
    /\ ~HasOutputNamed("patch")

\* the release branch was pushed
Pushed == \E i \in 1..Len(gitOps) : gitOps[i] = Git("push", TRUE)

\* C24: after a run that pushed the release branch, the outputs
\* pull-request-title, pull-request-body, pull-request-url and
\* pull-request-number are there, for a pull request newly opened and for
\* one that existed already (409)
C24_PullRequestOutputs ==
    (CompletedUnskipped /\ Pushed) =>
        /\ HasOutput("pull-request-title", Get(plan).pullRequestTitle)
        /\ HasOutput("pull-request-body", EscapeLines(Get(plan).pullRequestBody))
        /\ HasOutputNamed("pull-request-url")
        /\ HasOutputNamed("pull-request-number")

\* the host answered 409 to the creation of the pull request, the run
\* completed, and neither pull-request-url nor pull-request-number was
\* appended
C24_Failing ==
    /\ CompletedUnskipped
    /\ Pushed
    /\ requests[Len(requests)] = Request("POST", "pulls", CONFLICT)
    /\ HasOutput("pull-request-title", Get(plan).pullRequestTitle)
    /\ ~HasOutputNamed("pull-request-url")
    /\ ~HasOutputNamed("pull-request-number")

-----------------------------------------------------------------------------
(* Properties of the requests of buildReleasePlan *)

\* C25: buildReleasePlan, whether it returns or fails, issues only read
\* requests (list tags, list commits, get file contents): no file is
\* written and no pull request, tag or release is created
C25_OnlyReadRequests ==
    mode = "planner" =>
        \A i \in 1..Len(requests) :
            /\ requests[i].method = "GET"
            /\ requests[i].endpoint \in PlanEndpoints

\* an invocation that read the tags, the commits and the changelog and
\* returned a plan
C25_Witness ==
    /\ mode = "planner"
    /\ IsSome(plan)
    /\ Len(requests) = 3
    /\ requests[3].endpoint = "contents"
    /\ ResponseOk(requests[3].status)

-----------------------------------------------------------------------------
(* Properties of two invocations that run concurrently *)

\* the plan of an invocation that runs alone with these options and gets
\* these answers
PlanAloneOf(opts, ctx, list, file) ==
    BuildPlan(opts, repository, ctx, fetchConventionalCommits(list, ctx), file)

\* the plan of an invocation that runs alone with the options of f and gets
\* the answers f got
PlanAlone(f) ==
    PlanAloneOf(f.options, resolveTagContext(Get(f.tags), f.options),
                Get(f.commitResponse), f.fetchedFiles[1].file)

\* the invocation with the locals f found the commits and returned the
\* plan it finds and returns alone
AsAlone(f) ==
    /\ IsSome(f.commits) =>
          Get(f.commits) = fetchConventionalCommits(
                               Get(f.commitResponse),
                               resolveTagContext(Get(f.tags), f.options))
    /\ IsSome(f.plan) => Get(f.plan) = PlanAlone(f)
    /\ f.pc = "planned" => IsSome(f.plan)

\* C26: of two invocations of buildReleasePlan on one client whose awaits
\* interleave in any order, each returns the plan it returns when it runs
\* alone with the same answers of the host
C26_ConcurrentAsAlone ==
    mode = "concurrent" => (AsAlone(Locals) /\ AsAlone(Get(suspended)))

\* both invocations returned, one for main after a tag, the other for
\* develop, with different versions
C26_Witness ==
    /\ mode = "concurrent"
    /\ pc = "planned"
    /\ Get(suspended).pc = "planned"
    /\ options.targetBranch # Get(suspended).options.targetBranch
    /\ Get(plan).version # Get(Get(suspended).plan).version
    /\ Get(plan).headBranchName # Get(Get(suspended).plan).headBranchName

-----------------------------------------------------------------------------
(* Properties of the order of the steps of buildReleasePlan *)

\* the endpoints of the requests issued so far, in order
RECURSIVE EndpointsOf(_)
EndpointsOf(rs) ==
    IF rs = <<>> THEN <<>> ELSE <<Head(rs).endpoint>> \o EndpointsOf(Tail(rs))

\* C27: buildReleasePlan fetches the tags, then the commits, then file
\* contents, each at most once; when no conventional commit is found it
\* fails before any file content is fetched and before a plan is computed
C27_SinglePass ==
    mode = "planner" =>
        /\ Len(requests) <= 3
        /\ EndpointsOf(requests) = SubSeq(<<"tags", "commits", "contents">>, 1, Len(requests))
        /\ NothingToRelease =>
              /\ pc = "rejected"
              /\ outcome = Rejected(NoCommitsError)
              /\ EndpointsOf(requests) = <<"tags", "commits">>
              /\ fetchedFiles = <<>>
              /\ plan = None

\* the host returned two commits, neither conventional, and the invocation
\* failed after the requests for the tags and the commits
C27_Witness ==
    /\ mode = "planner"
    /\ NothingToRelease
    /\ Len(Get(commitResponse)) = 2
    /\ pc = "rejected"
    /\ Len(requests) = 2

-----------------------------------------------------------------------------
(* Properties of the format of the next tag *)

\* the next tag as C28 words it, for a previous tag
InheritedTag(opts, prev, version) ==
    MkTagName(version,
              IF opts.includeComponentInTag = Some(FALSE) THEN None
              ELSE IF IsSome(opts.component) THEN opts.component
              ELSE prev.component,
              IF IsSome(opts.tagSeparator) THEN opts.tagSeparator ELSE prev.separator,
              IF IsSome(opts.includeVInTag) THEN Get(opts.includeVInTag) ELSE prev.includeV)

\* the next tag as C28 words it, without a previous tag
FirstTag(opts, version) ==
    MkTagName(version,
              IF opts.includeComponentInTag = Some(FALSE) THEN None ELSE opts.component,
              opts.tagSeparator,
              IF IsSome(opts.includeVInTag) THEN Get(opts.includeVInTag) ELSE TRUE)

\* the next tag as C28 words it
ClaimedTag(opts, ctx, version) ==
    IF IsSome(ctx.previousTag)
    THEN InheritedTag(opts, Get(ctx.previousTag).tag, version)
    ELSE FirstTag(opts, version)

\* the previous tag's name with the version replaced by that of the plan
PreviousTagAt(prev, version) == TagString([prev.tag EXCEPT !.version = version])

\* C28: the next tag takes includeV, separator and component from the
\* options, else from the previous tag (includeV: else true; component:
\* none when includeComponentInTag is false); with no options and a
\* previous tag, the next tag is the previous tag with the new version
C28_TagFormatInherited ==
    IsSome(plan) =>
        /\ Get(plan).currentTag =
              TagString(ClaimedTag(options, Get(tagContext), Get(plan).version))
        /\ (options = DefaultOptions /\ IsSome(Get(tagContext).previousTag)) =>
              /\ Get(plan).currentTag =
                    PreviousTagAt(Get(Get(tagContext).previousTag), Get(plan).version)
              /\ Join(Get(Get(tagContext).previousTag).rawName) =
                    TagString(Get(Get(tagContext).previousTag).tag)

\* with no options, a fix after the tag lib/0.1.0 is planned as lib/0.1.1
C28_Witness ==
    /\ IsSome(plan)
    /\ options = DefaultOptions
    /\ IsSome(Get(tagContext).previousTag)
    /\ Get(Get(tagContext).previousTag).rawName = TagOtherV010
    /\ Get(plan).currentTag = "lib/0.1.1"

\* the newest tag of the host, and what TagName.parse makes of its name
NewestTag == hostTags[1]
NewestParsed == TagParse(NewestTag.name)

\* behind the newest tag the host holds a tag of the requested component
OlderTagOfComponent ==
    \E i \in 2..Len(hostTags) :
        /\ IsSome(TagParse(hostTags[i].name))
        /\ Get(TagParse(hostTags[i].name)).component = options.component

\* the newest tag carries a component other than the requested one
NewestOfOtherComponent ==
    /\ IsSome(options.component)
    /\ IsSome(NewestParsed)
    /\ IsSome(Get(NewestParsed).component)
    /\ Get(NewestParsed).component # options.component

\* the newest tag carries no component, and a component is requested
NewestWithoutComponent ==
    /\ IsSome(options.component)
    /\ IsSome(NewestParsed)
    /\ ~IsSome(Get(NewestParsed).component)

\* C29: the previous tag is the newest tag of the host or absent, whatever
\* older tags the host holds or answers with; with a component requested
\* and a newest tag of another component there is no previous tag, every
\* fetched commit is walked and the plan is an initial release from the
\* initial version; a newest tag without component is the previous tag
C29_NewestTagOnly ==
    IsSome(tagContext) =>
        /\ IsSome(Get(tagContext).previousTag) =>
              /\ IsSome(NewestParsed)
              /\ Get(Get(tagContext).previousTag) =
                    [tag |-> Get(NewestParsed),
                     commitSha |-> NewestTag.commit.sha,
                     rawName |-> NewestTag.name]
        /\ NewestOfOtherComponent =>
              /\ Get(tagContext).previousTag = None
              /\ (IsSome(walked) => Get(walked) = Get(commitResponse))
              /\ (IsSome(plan) =>
                    /\ Get(plan).previousTag = None
                    /\ Get(plan).version =
                          bump(InitialBase, Get(plan).commits,
                               OrElse(options.bumpMinorPreMajor, FALSE),
                               OrElse(options.bumpPatchForMinorPreMajor, FALSE)))
        /\ NewestWithoutComponent =>
              /\ IsSome(Get(tagContext).previousTag)
              /\ Get(Get(tagContext).previousTag).rawName = NewestTag.name

\* the component comp is requested, the newest tag is lib/0.1.0, the host
\* answered with the older comp-v1.2.0 as well, and the plan is an initial
\* release
C29_Witness ==
    /\ IsSome(plan)
    /\ NewestOfOtherComponent
    /\ OlderTagOfComponent
    /\ Len(Get(tags)) = 2
    /\ Get(plan).previousTag = None

\* the component comp is requested and the newest tag v1.2.0, which carries
\* no component, is the previous tag of the plan
C29_WitnessWithoutComponent ==
    /\ IsSome(plan)
    /\ NewestWithoutComponent
    /\ OlderTagOfComponent
    /\ IsSome(Get(plan).previousTag)

-----------------------------------------------------------------------------

\* the git commands of a run that goes through with n planned updates
GitOrder(n) ==
    <<"config user.name", "config user.email">> \o [i \in 1..n |-> "add"]
        \o <<"status", "checkout", "commit", "push">>

\* the git commands run so far are the first ones of the order, and none
\* but the last one failed
GitInOrder ==
    /\ Len(gitOps) <= Len(GitOrder(Len(Get(plan).updates)))
    /\ \A i \in 1..Len(gitOps) :
          /\ gitOps[i].cmd = GitOrder(Len(Get(plan).updates))[i]
          /\ (i < Len(gitOps) => gitOps[i].ok)

\* position of the command in gitOps, 0 when it was not run
GitPosition(cmd) ==
    IF \E i \in 1..Len(gitOps) : gitOps[i].cmd = cmd
    THEN CHOOSE i \in 1..Len(gitOps) : gitOps[i].cmd = cmd
    ELSE 0

\* the request that creates the pull request was sent
PullRequestSent ==
    \E i \in 1..Len(requests) : requests[i].endpoint = "pulls"

\* the run returned after finding the working tree clean
SkippedRun == outputs = <<<<"skipped", "true">>, <<"reason", "no_changes">>>>

\* C30: an action run plans, configures the git identity, writes and adds
\* each planned update, asks for the status, checks out, commits, pushes,
\* creates the pull request and writes its outputs, in this order and each
\* step only after the one before it succeeded; a run that finds no changes
\* writes skipped=true and reason=no_changes and neither checks out,
\* commits, pushes nor creates a pull request; the pull request is created
\* only after a push that succeeded
C30_StepOrder ==
    mode = "action" =>
        /\ (gitOps # <<>> \/ written # <<>>) => (IsSome(plan) /\ GitInOrder)
        /\ written # <<>> =>
              /\ GitPosition("config user.email") # 0
              /\ gitOps[GitPosition("config user.email")].ok
              /\ Len(written) =
                    Cardinality({i \in 1..Len(gitOps) : gitOps[i].cmd = "add"})
              /\ written = [i \in 1..Len(written) |-> Get(plan).updates[i].path]
        /\ PullRequestSent =>
              /\ requests[Len(requests)].endpoint = "pulls"
              /\ ~(\E i \in 1..(Len(requests) - 1) : requests[i].endpoint = "pulls")
              /\ Len(gitOps) = Len(GitOrder(Len(Get(plan).updates)))
              /\ gitOps[Len(gitOps)] = Git("push", TRUE)
        /\ outputs # <<>> =>
              /\ pc = "exit"
              /\ exitCode = 0
              /\ IF PullRequestSent
                 THEN /\ outputs[1] = <<"skipped", "false">>
                      /\ ~HasOutput("skipped", "true")
                 ELSE /\ SkippedRun
                      /\ gitOps[Len(gitOps)] = Git("status", TRUE)
                      /\ Len(written) = Len(Get(plan).updates)
        /\ SkippedRun =>
              /\ GitPosition("checkout") = 0
              /\ GitPosition("commit") = 0
              /\ GitPosition("push") = 0
              /\ ~PullRequestSent

\* a run that went through: every git command succeeded, the pull request
\* was created after the push and the outputs were written
C30_Witness ==
    /\ mode = "action"
    /\ pc = "exit"
    /\ IsSome(plan)
    /\ written # <<>>
    /\ Len(written) = Len(Get(plan).updates)
    /\ Len(gitOps) = Len(GitOrder(Len(Get(plan).updates)))
    /\ PullRequestSent
    /\ HasOutput("skipped", "false")

\* a run that wrote its updates, found the working tree clean and returned
C30_WitnessSkipped ==
    /\ mode = "action"
    /\ pc = "exit"
    /\ written # <<>>
    /\ SkippedRun
    /\ gitOps[Len(gitOps)] = Git("status", TRUE)

====
